---- MODULE Spec2Model ----
(***************************************************************************)
(* Model of the retrieval-augmented query pipeline of the Robotics Book    *)
(* RAG API: the token-window chunker of EmbeddingService and the /query    *)
(* handler of main.py.                                                     *)
(*                                                                         *)
(* Numbers: similarity scores are integers in thousandths (707 = 0.707),   *)
(* confidences are integers in hundredths (71 = 0.71).                     *)
(***************************************************************************)
EXTENDS Integers, Sequences, FiniteSets, TLC

(***************************************************************************)
(* Bounds of the model.                                                    *)
(***************************************************************************)
MaxTokens == 5

MaxChunkSize == 3

MaxChunkOverlap == 3

\* cap on the number of loop iterations that are followed: with
\* chunk_overlap >= chunk_size the loop of chunk_text never ends
MaxChunks == MaxTokens + 2

MaxResults == 2

MaxPoints == 2

MaxRuns == 2

MaxAdds == 1

MaxPhrCalls == 3

MaxRequests == 2

MaxSessions == 3

MaxSignOuts == 2

(***************************************************************************)
(* Generic helpers.                                                        *)
(***************************************************************************)
Min(a, b) == IF a < b THEN a ELSE b

Max(a, b) == IF a > b THEN a ELSE b

SeqsUpTo(S, n) == UNION {[1..k -> S] : k \in 0..n}

RECURSIVE Flatten(_)
Flatten(ss) == IF ss = <<>> THEN <<>> ELSE Head(ss) \o Flatten(Tail(ss))

\* Python's s[a:b] for a 0-based list s and integers a, b (negative indices
\* count from the end, out-of-range indices are clamped)
PySlice(s, a, b) ==
    LET n  == Len(s)
        lo == IF a < 0 THEN Max(a + n, 0) ELSE Min(a, n)
        hi == IF b < 0 THEN Max(b + n, 0) ELSE Min(b, n)
    IN  IF lo >= hi THEN <<>> ELSE SubSeq(s, lo + 1, hi)

(***************************************************************************)
(* State.                                                                  *)
(***************************************************************************)
VARIABLES
    \* EmbeddingService
    chunk_size,      \* self.chunk_size
    chunk_overlap,   \* self.chunk_overlap
    tokens,          \* chunk_text: tokens = encoding.encode(text)
    start,           \* chunk_text: start
    chunk_tokens,    \* chunk_text: the chunk_tokens of every iteration so far
    chunks,          \* chunk_text: chunks (decoded text of every window)
    cpc,             \* chunk_text: "ready", "loop", "returned"
    \* main.py
    handles,         \* the globals qdrant_client, openai_client, gemini_model
    index,           \* the Qdrant collection COLLECTION_NAME
    handler,         \* per request of /query: the frame of query_chatbot
    running,         \* the request whose handler holds the event loop's thread
    calls,           \* the provider calls issued so far, in order
    clients,         \* the requests that are submitted in this run
    pool,            \* the request bodies they may carry
    \* simple_upload.py
    fs,              \* the .mdx files under docs and their content
    ing,             \* the frame of main: files still to upload, total
    up,              \* the frame of the running upload_file call
    uploads,         \* the finished upload_file calls, in order
    next_uuid,       \* how many identifiers uuid4 has drawn, plus one
    \* services/phr_service.py
    phr_files,       \* the files under history/prompts: path -> content
    phr_calls,       \* the create_phr calls so far: arguments and returned path
    phr_loaded,      \* the last load_phr call: its path and what it returned
    \* main.py, the endpoints other than /query
    served,          \* the requests answered so far, each with its response
    \* auth_server.py
    users,           \* the global users: email -> user
    sessions,        \* the global sessions: token -> session
    auth_last,       \* the last call of an endpoint and its outcome
    next_token       \* how many tokens secrets has drawn, plus one

chunkVars == <<chunk_size, chunk_overlap, tokens, start, chunk_tokens, chunks, cpc>>

queryVars == <<handles, index, handler, running, calls, clients, pool>>

ingestVars == <<fs, ing, up, uploads, next_uuid>>

phrVars == <<phr_files, phr_calls, phr_loaded>>

authVars == <<users, sessions, auth_last, next_token>>

siteVars == <<phrVars, served, authVars>>

vars == <<chunkVars, queryVars, ingestVars, siteVars>>

(***************************************************************************)
(* EmbeddingService.chunk_text                                             *)
(***************************************************************************)
\* a token of the encoding is the piece of text it stands for
Vocab == {<<"a">>, <<"b", "c">>, <<"d">>}

\* encoding.decode: the text of the tokens, concatenated
Decode(toks) == Flatten(toks)

WindowEndInclusive(s, size) == s + size + 1

\* end = start + self.chunk_size
WindowEnd(s, size) == s + size

NextStartNoOverlap(e, overlap) == e

NextStartOffByOne(e, overlap) == e - overlap + 1

NextStartDoubleOverlap(e, overlap) == e - 2 * overlap

\* start = end - self.chunk_overlap
NextStart(e, overlap) == e - overlap

InitChunk ==
    /\ chunk_size \in 0..MaxChunkSize
    /\ chunk_overlap \in 0..MaxChunkOverlap
    /\ tokens = <<>>
    /\ start = 0
    /\ chunk_tokens = <<>>
    /\ chunks = <<>>
    /\ cpc = "ready"

chunk_text ==
    /\ cpc = "ready"
    /\ \E toks \in SeqsUpTo(Vocab, MaxTokens) : tokens' = toks
    /\ start' = 0
    /\ chunk_tokens' = <<>>
    /\ chunks' = <<>>
    /\ cpc' = "loop"
    /\ UNCHANGED <<chunk_size, chunk_overlap>>
    /\ UNCHANGED queryVars
    /\ UNCHANGED ingestVars
    /\ UNCHANGED siteVars

chunk_loop ==
    /\ cpc = "loop"
    /\ start < Len(tokens)
    /\ Len(chunks) < MaxChunks
    /\ LET e == WindowEnd(start, chunk_size)
           w == PySlice(tokens, start, e)
       IN  /\ chunk_tokens' = Append(chunk_tokens, w)
           /\ chunks' = Append(chunks, Decode(w))
           /\ start' = NextStart(e, chunk_overlap)
    /\ UNCHANGED <<chunk_size, chunk_overlap, tokens, cpc>>
    /\ UNCHANGED queryVars
    /\ UNCHANGED ingestVars
    /\ UNCHANGED siteVars

chunk_return ==
    /\ cpc = "loop"
    /\ ~(start < Len(tokens))
    /\ cpc' = "returned"
    /\ UNCHANGED <<chunk_size, chunk_overlap, tokens, start, chunk_tokens, chunks>>
    /\ UNCHANGED queryVars
    /\ UNCHANGED ingestVars
    /\ UNCHANGED siteVars

NextChunk == chunk_text \/ chunk_loop \/ chunk_return

(***************************************************************************)
(* main.py: the /query handler query_chatbot and what it calls.            *)
(***************************************************************************)
Queries == {"q1", "q2"}

\* a value that may be None: <<>> is None, <<v>> is the value v
Some(v) == <<v>>

\* ---- text: a question is the sequence of its characters ----
Whitespace == {" ", "\t", "\n", "\r"}

LowerChars == <<"a", "e", "h", "i", "j", "k", "l", "n", "o", "r", "s", "t", "u", "w", "y">>

UpperChars == <<"A", "E", "H", "I", "J", "K", "L", "N", "O", "R", "S", "T", "U", "W", "Y">>

LowerChar(ch) ==
    IF \E i \in 1..Len(UpperChars) : UpperChars[i] = ch
    THEN LowerChars[CHOOSE i \in 1..Len(UpperChars) : UpperChars[i] = ch]
    ELSE ch

UpperChar(ch) ==
    IF \E i \in 1..Len(LowerChars) : LowerChars[i] = ch
    THEN UpperChars[CHOOSE i \in 1..Len(LowerChars) : LowerChars[i] = ch]
    ELSE ch

\* str.lower()
Lower(str) == [i \in 1..Len(str) |-> LowerChar(str[i])]

\* str.upper()
Upper(str) == [i \in 1..Len(str) |-> UpperChar(str[i])]

RECURSIVE LStrip(_)
LStrip(str) ==
    IF str # <<>> /\ Head(str) \in Whitespace THEN LStrip(Tail(str)) ELSE str

RECURSIVE RStrip(_)
RStrip(str) ==
    IF str # <<>> /\ str[Len(str)] \in Whitespace
    THEN RStrip(SubSeq(str, 1, Len(str) - 1))
    ELSE str

\* str.strip()
Strip(str) == RStrip(LStrip(str))

vague_inputs ==
    { <<"h", "i">>, <<"h", "e", "l", "l", "o">>, <<"h", "e", "y">>, <<"j", "i">>,
      <<"y", "e", "s">>, <<"n", "o">>, <<"o", "k">>, <<"o", "k", "a", "y">>,
      <<"t", "h", "a", "n", "k", "s">>,
      <<"t", "h", "a", "n", "k", " ", "y", "o", "u">> }

IsVagueNoStrip(question) == Lower(question) \in vague_inputs

\* request.question.lower().strip() in vague_inputs
IsVague(question) == Strip(Lower(question)) \in vague_inputs

CannedAnswer == "Hello! I'm your AI assistant for the Physical AI & Humanoid Robotics Lab textbook."

\* ---- the request bodies (QueryRequest) ----
Padded(w) == {w, <<" ">> \o Upper(w) \o <<"\n">>, <<"\t", UpperChar(Head(w))>> \o Tail(w)}

Questions ==
    UNION {Padded(w) : w \in vague_inputs}
        \cup { <<>>, <<" ">>, <<"h", "i", " ", "r", "o", "s">>, <<"h", " ", "i">>,
               <<"w", "h", "a", "t", " ", "i", "s", " ", "r", "o", "s">> }

SelectedTexts ==
    { [none |-> TRUE, text |-> ""], [none |-> FALSE, text |-> ""],
      [none |-> FALSE, text |-> "X"] }

Requests ==
    [question : Questions, max_results : 1..MaxResults, selected_text : SelectedTexts]

\* ---- the vector index (Qdrant, cosine distance) ----
\* a vector is a direction in the plane, in units of 45 degrees
CosMilli == <<1000, 707, 0, -707, -1000, -707, 0, 707>>

Similarity(u, v) == CosMilli[((u - v) % Len(CosMilli)) + 1]

QueryVectors == {0, 2}

PointTemplates ==
    { [vector |-> 0,
       payload |-> [text |-> "ROS 2 is a robotics middleware", doc_id |-> "intro",
                    file |-> "intro.mdx", chunk_index |-> 0]],
      [vector |-> 1,
       payload |-> [text |-> "Gazebo simulates robots", module |-> "module-2",
                    file |-> "gazebo.mdx"]],
      [vector |-> 3,
       payload |-> [doc_id |-> "unknown"]] }

Corpus(ts) == [i \in 1..Len(ts) |-> [id |-> i, vector |-> ts[i].vector, payload |-> ts[i].payload]]

IndexStates ==
    { [status |-> "missing", points |-> <<>>],
      [status |-> "unavailable", points |-> <<>>] }
        \cup { [status |-> "ok", points |-> Corpus(ts)] : ts \in SeqsUpTo(PointTemplates, MaxPoints) }

\* the orders in which the index may rank its points for the query vector v:
\* by similarity, higher first, ties in any order
Rankings(points, v) ==
    { r \in [1..Len(points) -> 1..Len(points)] :
        /\ \A i, j \in 1..Len(points) : i # j => r[i] # r[j]
        /\ \A i, j \in 1..Len(points) :
              i < j => Similarity(points[r[i]].vector, v) >= Similarity(points[r[j]].vector, v) }

ScoredPoint(p, v) == [id |-> p.id, score |-> Similarity(p.vector, v), payload |-> p.payload]

\* qdrant_client.query_points(collection_name, query, limit): what it returns
\* (.points) or raises
query_points(idx, v, limit) ==
    IF idx.status = "missing"
    THEN { [ok |-> FALSE, points |-> <<>>, error |-> "Collection not found"] }
    ELSE IF idx.status = "unavailable"
    THEN { [ok |-> FALSE, points |-> <<>>, error |-> "index unavailable"] }
    ELSE { [ok |-> TRUE,
            points |-> [i \in 1..Min(limit, Len(idx.points)) |-> ScoredPoint(idx.points[r[i]], v)],
            error |-> ""] : r \in Rankings(idx.points, v) }

\* openai_client.embeddings.create(...): the vector it returns, or raises
embeddings_create(question) ==
    { [ok |-> TRUE, vector |-> v, error |-> ""] : v \in QueryVectors }
        \cup { [ok |-> FALSE, vector |-> 0, error |-> "embedding failed"] }

\* gemini_model.generate_content(...).text: the text it returns, or raises
generate_content(prompt) ==
    { [ok |-> TRUE, text |-> "generated answer", error |-> ""],
      [ok |-> FALSE, text |-> "", error |-> "generation failed"] }

\* ---- building the context (lines 289-311) ----
PayloadGet(payload, key, default) ==
    IF key \in DOMAIN payload THEN payload[key] ELSE default

Piece(kind, ord, info, text) == [kind |-> kind, ord |-> ord, info |-> info, text |-> text]

Separator == Piece("text", 0, <<>>, "\n\n")

source_info(payload) ==
    IF PayloadGet(payload, "module", "") # ""
    THEN <<PayloadGet(payload, "module", ""), PayloadGet(payload, "file", "")>>
    ELSE <<>>

ContextPartZeroBased(i, hit) ==
    Piece("source", i - 1, source_info(hit.payload), PayloadGet(hit.payload, "text", ""))

\* f"[Source {i} {source_info}]: {text}"
ContextPart(i, hit) ==
    Piece("source", i, source_info(hit.payload), PayloadGet(hit.payload, "text", ""))

SourceOfKeepsText(hit) ==
    [id |-> hit.id, score |-> hit.score, text |-> PayloadGet(hit.payload, "text", ""),
     metadata |-> hit.payload]

\* the entry of sources for a hit (lines 301-306)
SourceOf(hit) ==
    [id |-> hit.id, score |-> hit.score, text |-> PayloadGet(hit.payload, "text", ""),
     metadata |-> [k \in (DOMAIN hit.payload) \ {"text"} |-> hit.payload[k]]]

\* "\n\n".join(parts)
RECURSIVE Join(_)
Join(parts) ==
    IF Len(parts) <= 1 THEN parts
    ELSE <<Head(parts), Separator>> \o Join(Tail(parts))

BuildContextFirstOnly(search_results, selected_text) ==
    LET context_parts == [i \in 1..Min(1, Len(search_results)) |-> ContextPart(i, search_results[i])]
        context       == Join(context_parts)
    IN  IF ~selected_text.none /\ selected_text.text # ""
        THEN << Piece("text", 0, <<>>, "Selected Text by User:\n"),
                Piece("selected", 0, <<>>, selected_text.text),
                Piece("text", 0, <<>>, "\n\nRelevant Textbook Content:\n") >> \o context
        ELSE context

BuildContext(search_results, selected_text) ==
    LET context_parts == [i \in 1..Len(search_results) |-> ContextPart(i, search_results[i])]
        context       == Join(context_parts)
    IN  IF ~selected_text.none /\ selected_text.text # ""
        THEN << Piece("text", 0, <<>>, "Selected Text by User:\n"),
                Piece("selected", 0, <<>>, selected_text.text),
                Piece("text", 0, <<>>, "\n\nRelevant Textbook Content:\n") >> \o context
        ELSE context

\* ---- the confidence (lines 348-353) ----
RECURSIVE SumScores(_)
SumScores(sources) ==
    IF sources = <<>> THEN 0 ELSE Head(sources).score + SumScores(Tail(sources))

\* round(num/den thousandths, 2) in hundredths: to the nearest, ties to even
Round2(num, den) ==
    LET q == den * 10
        f == num \div q
        r == num - f * q
    IN  IF 2 * r < q THEN f
        ELSE IF 2 * r > q THEN f + 1
        ELSE IF f % 2 = 0 THEN f ELSE f + 1

ConfidenceTruncated(sources) ==
    IF sources # <<>> THEN SumScores(sources) \div (Len(sources) * 10) ELSE 0

ConfidenceEmptyIsOne(sources) ==
    IF sources # <<>> THEN Round2(SumScores(sources), Len(sources)) ELSE 100

\* round(sum(s["score"] for s in sources) / len(sources) if sources else 0, 2)
Confidence(sources) ==
    IF sources # <<>> THEN Round2(SumScores(sources), Len(sources)) ELSE 0

\* ---- the handler ----
IdleFrame ==
    [pc |-> "idle", request |-> <<>>, question_embedding |-> <<>>,
     search_results |-> <<>>, sources |-> <<>>, context |-> <<>>,
     response |-> <<>>, errors |-> <<>>]

\* an entry of calls: result is "pending" while the call is awaited, "ok" when
\* it returned, and the message of the exception when it raised
Call(c, op, result, arg) == [by |-> c, op |-> op, result |-> result, arg |-> arg]

OnExceptionPartialAnswer(frame, e) ==
    [frame EXCEPT !.pc = "done",
                  !.response = Some([answer |-> "", sources |-> frame.sources,
                                     confidence |-> Confidence(frame.sources)])]

\* except Exception as e: raise HTTPException(status_code=500, detail=str(e))
OnException(frame, e) ==
    [frame EXCEPT !.pc = "failed",
                  !.errors = Append(@, [status_code |-> 500, detail |-> e])]

\* startup_event: the globals it leaves behind (an exception in it is printed
\* and the globals assigned before it stay)
StartupOutcomes ==
    { [qdrant_client |-> "client", openai_client |-> "client", gemini_model |-> "model"],
      [qdrant_client |-> "client", openai_client |-> "client", gemini_model |-> "None"],
      [qdrant_client |-> "client", openai_client |-> "None", gemini_model |-> "None"],
      [qdrant_client |-> "None", openai_client |-> "None", gemini_model |-> "None"] }

InitQuery ==
    /\ handles \in StartupOutcomes
    /\ index \in IndexStates
    /\ handler = [c \in Queries |-> IdleFrame]
    /\ running = "none"
    /\ calls = <<>>
    /\ clients = {"q1"}
    /\ pool = Requests

\* Receive without the await: the handler goes on to the search while the
\* embedding call is still pending
ReceiveNoAwait(c) ==
    /\ c \in clients
    /\ handler[c].pc = "idle"
    /\ running = "none"
    /\ \E req \in pool :
          LET frame == [handler[c] EXCEPT !.request = Some(req)]
          IN  IF IsVague(req.question)
              THEN /\ handler' = [handler EXCEPT ![c] =
                          [frame EXCEPT !.pc = "done",
                                        !.response = Some([answer |-> CannedAnswer,
                                                           sources |-> <<>>,
                                                           confidence |-> 100])]]
                   /\ UNCHANGED <<calls, running>>
              ELSE /\ handler' = [handler EXCEPT ![c] =
                          [frame EXCEPT !.pc = "search", !.question_embedding = Some(0)]]
                   /\ calls' = Append(calls, Call(c, "embed", "pending", req.question))
                   /\ running' = c
    /\ UNCHANGED <<handles, index, clients, pool>>
    /\ UNCHANGED chunkVars
    /\ UNCHANGED ingestVars
    /\ UNCHANGED siteVars

\* lines 262-279: the request arrives, is classified, and unless it is a
\* greeting the embedding call is issued and the handler awaits it
Receive(c) ==
    /\ c \in clients
    /\ handler[c].pc = "idle"
    /\ running = "none"
    /\ \E req \in pool :
          LET frame == [handler[c] EXCEPT !.request = Some(req)]
          IN  IF IsVague(req.question)
              THEN /\ handler' = [handler EXCEPT ![c] =
                          [frame EXCEPT !.pc = "done",
                                        !.response = Some([answer |-> CannedAnswer,
                                                           sources |-> <<>>,
                                                           confidence |-> 100])]]
                   /\ UNCHANGED calls
              ELSE IF handles.openai_client = "None"
              THEN /\ handler' = [handler EXCEPT ![c] =
                          OnException(frame, "'NoneType' object has no attribute 'embeddings'")]
                   /\ UNCHANGED calls
              ELSE /\ handler' = [handler EXCEPT ![c] = [frame EXCEPT !.pc = "await_embed"]]
                   /\ calls' = Append(calls, Call(c, "embed", "pending", req.question))
    /\ UNCHANGED <<handles, index, running, clients, pool>>
    /\ UNCHANGED chunkVars
    /\ UNCHANGED ingestVars
    /\ UNCHANGED siteVars

\* lines 275-279: the embedding call returns or raises
EmbedReturn(c) ==
    /\ handler[c].pc = "await_embed"
    /\ running = "none"
    /\ LET k == CHOOSE i \in 1..Len(calls) : calls[i].by = c /\ calls[i].op = "embed"
       IN  \E out \in embeddings_create(handler[c].request[1].question) :
              IF out.ok
              THEN /\ handler' = [handler EXCEPT ![c] =
                          [@ EXCEPT !.pc = "search", !.question_embedding = Some(out.vector)]]
                   /\ calls' = [calls EXCEPT ![k].result = "ok"]
                   /\ running' = c
              ELSE /\ handler' = [handler EXCEPT ![c] = OnException(@, out.error)]
                   /\ calls' = [calls EXCEPT ![k].result = out.error]
                   /\ UNCHANGED running
    /\ UNCHANGED <<handles, index, clients, pool>>
    /\ UNCHANGED chunkVars
    /\ UNCHANGED ingestVars
    /\ UNCHANGED siteVars

\* lines 281-311: the search, then sources and context are built
Search(c) ==
    /\ handler[c].pc = "search"
    /\ running = c
    /\ LET req == handler[c].request[1]
           v   == handler[c].question_embedding[1]
       IN  \E out \in query_points(index, v, req.max_results) :
              IF out.ok
              THEN /\ handler' = [handler EXCEPT ![c] =
                          [@ EXCEPT !.pc = "generate",
                                    !.search_results = out.points,
                                    !.sources = [i \in 1..Len(out.points) |-> SourceOf(out.points[i])],
                                    !.context = BuildContext(out.points, req.selected_text)]]
                   /\ calls' = Append(calls, Call(c, "search", "ok", <<v, req.max_results>>))
                   /\ UNCHANGED running
              ELSE /\ handler' = [handler EXCEPT ![c] = OnException(@, out.error)]
                   /\ calls' = Append(calls, Call(c, "search", out.error, <<v, req.max_results>>))
                   /\ running' = "none"
    /\ UNCHANGED <<handles, index, clients, pool>>
    /\ UNCHANGED chunkVars
    /\ UNCHANGED ingestVars
    /\ UNCHANGED siteVars

\* Generate with sources kept in a module-level list that is never emptied:
\* the answer carries the sources of the queries answered before it as well
GenerateSharedSources(c) ==
    /\ handler[c].pc = "generate"
    /\ running = c
    /\ LET req    == handler[c].request[1]
           prompt == [context |-> handler[c].context, question |-> req.question]
           others == Flatten([i \in 1..2 |->
                                IF <<"q1", "q2">>[i] # c /\ handler[<<"q1", "q2">>[i]].pc = "done"
                                THEN handler[<<"q1", "q2">>[i]].sources ELSE <<>>])
           shared == others \o handler[c].sources
       IN  \E out \in generate_content(prompt) :
              IF out.ok
              THEN /\ handler' = [handler EXCEPT ![c] =
                          [@ EXCEPT !.pc = "done",
                                    !.response = Some([answer |-> out.text,
                                                       sources |-> shared,
                                                       confidence |-> Confidence(shared)])]]
                   /\ calls' = Append(calls, Call(c, "generate", "ok", prompt))
              ELSE /\ handler' = [handler EXCEPT ![c] = OnException(@, out.error)]
                   /\ calls' = Append(calls, Call(c, "generate", out.error, prompt))
    /\ running' = "none"
    /\ UNCHANGED <<handles, index, clients, pool>>
    /\ UNCHANGED chunkVars
    /\ UNCHANGED ingestVars
    /\ UNCHANGED siteVars

\* lines 313-354: the prompt, the generation call, the confidence, the response
Generate(c) ==
    /\ handler[c].pc = "generate"
    /\ running = c
    /\ LET req    == handler[c].request[1]
           prompt == [context |-> handler[c].context, question |-> req.question]
       IN  IF handles.gemini_model = "None"
           THEN /\ handler' = [handler EXCEPT ![c] =
                       OnException(@, "'NoneType' object has no attribute 'generate_content'")]
                /\ UNCHANGED calls
           ELSE \E out \in generate_content(prompt) :
                   IF out.ok
                   THEN /\ handler' = [handler EXCEPT ![c] =
                               [@ EXCEPT !.pc = "done",
                                         !.response = Some([answer |-> out.text,
                                                            sources |-> handler[c].sources,
                                                            confidence |-> Confidence(handler[c].sources)])]]
                        /\ calls' = Append(calls, Call(c, "generate", "ok", prompt))
                   ELSE /\ handler' = [handler EXCEPT ![c] = OnException(@, out.error)]
                        /\ calls' = Append(calls, Call(c, "generate", out.error, prompt))
    /\ running' = "none"
    /\ UNCHANGED <<handles, index, clients, pool>>
    /\ UNCHANGED chunkVars
    /\ UNCHANGED ingestVars
    /\ UNCHANGED siteVars

NextQuery ==
    \E c \in Queries : Receive(c) \/ EmbedReturn(c) \/ Search(c) \/ Generate(c)

(***************************************************************************)
(* simple_upload.py: the ingestion run, and RAGService.add_text_chunk.     *)
(***************************************************************************)
\* chunk_text(text, size=1000)
ChunkCharSize == 1000

\* if len(cleaned) < 50
MinLength == 50

\* the docs directory: the .mdx files in their sorted order
PathOrder ==
    << [dir |-> "module-1", stem |-> "intro"],
       [dir |-> "module-1", stem |-> "setup"],
       [dir |-> "module-2", stem |-> "intro"] >>

Paths == {PathOrder[i] : i \in 1..Len(PathOrder)}

\* file_path.name
FileName(path) == <<path.stem, ".mdx">>

\* the content of a file: its words, each given by its length in characters,
\* and 0 for a piece of MDX syntax (import, export, JSX tag, comment); a file
\* that is not valid UTF-8 is not readable
Document(readable, items) == [readable |-> readable, items |-> items]

Unreadable == Document(FALSE, <<>>)

EmptyText == Document(TRUE, <<0>>)

ShortText == Document(TRUE, <<0, 20, 20>>)

OneChunk == Document(TRUE, <<0, 60>>)

ShortTail == Document(TRUE, <<499, 499, 10>>)

\* the docs directories the script is run on
Corpora ==
    { PathOrder[1] :> OneChunk @@ PathOrder[3] :> OneChunk,
      PathOrder[1] :> Unreadable @@ PathOrder[2] :> OneChunk,
      PathOrder[1] :> ShortText @@ PathOrder[2] :> EmptyText @@ PathOrder[3] :> OneChunk,
      PathOrder[2] :> ShortTail @@ PathOrder[3] :> Unreadable,
      PathOrder[2] :> OneChunk }

\* sorted(files)
SortedFiles(files) == SelectSeq(PathOrder, LAMBDA p : p \in DOMAIN files)

\* clean_content: the MDX syntax is removed, the words stay, separated by
\* single blanks
clean_content(items) == SelectSeq(items, LAMBDA x : x > 0)

RECURSIVE SumSeq(_)
SumSeq(ns) == IF ns = <<>> THEN 0 ELSE Head(ns) + SumSeq(Tail(ns))

\* len() of a text given by its words
TextLen(words) == IF words = <<>> THEN 0 ELSE SumSeq(words) + Len(words) - 1

RECURSIVE ChunkWords(_, _, _, _, _)
ChunkWords(words, current, current_size, size, out) ==
    IF words = <<>>
    THEN IF current # <<>> THEN Append(out, current) ELSE out
    ELSE LET cur == Append(current, Head(words))
             cs  == current_size + Head(words) + 1
         IN  IF cs >= size
             THEN ChunkWords(Tail(words), <<>>, 0, size, Append(out, cur))
             ELSE ChunkWords(Tail(words), cur, cs, size, out)

\* chunk_text(text, size) of simple_upload.py
simple_chunk_text(words, size) == ChunkWords(words, <<>>, 0, size, <<>>)

TooShortNever(cleaned) == FALSE

\* len(cleaned) < 50
TooShort(cleaned) == TextLen(cleaned) < MinLength

uuid4Repeats(n) == 1

\* str(uuid.uuid4()): the n-th identifier drawn; no two draws are equal
uuid4(n) == n

RECURSIVE UpsertPoints(_, _)
UpsertPoints(stored, new) ==
    IF new = <<>> THEN stored
    ELSE LET p == Head(new)
         IN  IF \E k \in 1..Len(stored) : stored[k].id = p.id
             THEN UpsertPoints([k \in 1..Len(stored) |->
                                   IF stored[k].id = p.id THEN p ELSE stored[k]], Tail(new))
             ELSE UpsertPoints(Append(stored, p), Tail(new))

\* qdrant_client.upsert(collection_name, points): all points are written, or
\* it raises and none is
upsert(idx, new) ==
    { [ok |-> TRUE, points |-> UpsertPoints(idx.points, new), error |-> ""],
      [ok |-> FALSE, points |-> idx.points, error |-> "upsert failed"] }

\* openai_client.embeddings.create(input=chunk, ...).data[0].embedding: the
\* vector of the chunk, or raises
create_embedding(chunk) ==
    { [ok |-> TRUE, vector |-> Len(chunk) % 4, error |-> ""],
      [ok |-> FALSE, vector |-> 0, error |-> "embedding failed"] }

IdleUpload ==
    [pc |-> "none", file |-> <<>>, cleaned |-> <<>>, chunks |-> <<>>, i |-> 0,
     points |-> <<>>, calls_from |-> 0, index_before |-> <<>>]

\* for file in sorted(files): count = await upload_file(file); total += count
ReturnCount(m, count) == [m EXCEPT !.files = Tail(@), !.total = @ + count]

ExceptReturnLen(points) == Len(points)

\* except Exception as e: ... return 0
ExceptReturn(points) == 0

Uncaught(m, points) == [m EXCEPT !.pc = "crashed"]

\* the try/except of upload_file seen from main: an exception in upload_file
\* ends the call with its except's return value
Caught(m, points) == ReturnCount(m, ExceptReturn(points))

\* the record of a finished call of upload_file
UploadRecord(file, cleaned, chunks_of, failed, count, calls_from, calls_to, before, after) ==
    [run |-> ing.run, file |-> file, cleaned |-> cleaned, chunks |-> chunks_of,
     failed |-> failed, count |-> count, calls_from |-> calls_from, calls_to |-> calls_to,
     index_before |-> before, index_after |-> after]

InitIngest ==
    /\ fs \in Corpora
    /\ ing = [pc |-> "idle", files |-> <<>>, total |-> 0, run |-> 0]
    /\ up = IdleUpload
    /\ uploads = <<>>
    /\ next_uuid = 1

\* main, lines 119-130: the script is started
main_start ==
    /\ ing.pc \in {"idle", "done"}
    /\ ing.run < MaxRuns
    /\ ing' = [pc |-> "loop", files |-> SortedFiles(fs), total |-> 0, run |-> ing.run + 1]
    /\ UNCHANGED <<fs, up, uploads, next_uuid>>
    /\ UNCHANGED <<chunkVars, queryVars>>
    /\ UNCHANGED siteVars

\* upload_file, lines 65-80: read, clean, length check, chunking
upload_file_begin ==
    /\ ing.pc = "loop"
    /\ ing.files # <<>>
    /\ up.pc = "none"
    /\ LET file    == Head(ing.files)
           doc     == fs[file]
           cleaned == clean_content(doc.items)
       IN  IF ~doc.readable
           THEN /\ ing' = Caught(ing, <<>>)
                /\ uploads' = Append(uploads,
                       UploadRecord(file, <<>>, <<>>, "read", ExceptReturn(<<>>), Len(calls),
                                    Len(calls), index.points, index.points))
                /\ UNCHANGED up
           ELSE IF TooShort(cleaned)
           THEN /\ ing' = ReturnCount(ing, 0)
                /\ uploads' = Append(uploads,
                       UploadRecord(file, cleaned, <<>>, "", 0, Len(calls), Len(calls),
                                    index.points, index.points))
                /\ UNCHANGED up
           ELSE /\ up' = [pc |-> "embedding", file |-> file, cleaned |-> cleaned,
                          chunks |-> simple_chunk_text(cleaned, ChunkCharSize), i |-> 0,
                          points |-> <<>>, calls_from |-> Len(calls),
                          index_before |-> index.points]
                /\ UNCHANGED <<ing, uploads>>
    /\ UNCHANGED <<fs, next_uuid>>
    /\ UNCHANGED <<chunkVars, queryVars>>
    /\ UNCHANGED siteVars

\* upload_file, lines 81-104: one iteration of the loop over the chunks
upload_file_embed ==
    /\ up.pc = "embedding"
    /\ up.i < Len(up.chunks)
    /\ LET chunk == up.chunks[up.i + 1]
       IN  \E out \in create_embedding(chunk) :
              IF out.ok
              THEN /\ up' = [up EXCEPT
                              !.i = @ + 1,
                              !.points = Append(@,
                                  [id |-> uuid4(next_uuid), vector |-> out.vector,
                                   payload |-> [text |-> chunk, doc_id |-> up.file.stem,
                                                file |-> FileName(up.file),
                                                chunk_index |-> up.i]])]
                   /\ next_uuid' = next_uuid + 1
                   /\ calls' = Append(calls, Call("simple_upload", "embed", "ok", chunk))
                   /\ UNCHANGED <<ing, uploads>>
              ELSE /\ ing' = Caught(ing, up.points)
                   /\ uploads' = Append(uploads,
                          UploadRecord(up.file, up.cleaned, up.chunks, "embed",
                                       ExceptReturn(up.points), up.calls_from,
                                       Len(calls) + 1, up.index_before, index.points))
                   /\ up' = IdleUpload
                   /\ calls' = Append(calls, Call("simple_upload", "embed", out.error, chunk))
                   /\ UNCHANGED next_uuid
    /\ UNCHANGED <<fs, handles, index, handler, running, clients, pool>>
    /\ UNCHANGED chunkVars
    /\ UNCHANGED siteVars

\* upload_file, lines 106-117: the batch upsert and the return
upload_file_upsert ==
    /\ up.pc = "embedding"
    /\ up.i = Len(up.chunks)
    /\ \E out \in upsert(index, up.points) :
          IF out.ok
          THEN /\ index' = [index EXCEPT !.points = out.points]
               /\ ing' = ReturnCount(ing, Len(up.points))
               /\ uploads' = Append(uploads,
                      UploadRecord(up.file, up.cleaned, up.chunks, "", Len(up.points),
                                   up.calls_from, Len(calls) + 1, up.index_before,
                                   out.points))
               /\ calls' = Append(calls, Call("simple_upload", "upsert", "ok", up.points))
          ELSE /\ UNCHANGED index
               /\ ing' = Caught(ing, up.points)
               /\ uploads' = Append(uploads,
                      UploadRecord(up.file, up.cleaned, up.chunks, "upsert",
                                   ExceptReturn(up.points), up.calls_from,
                                   Len(calls) + 1, up.index_before, index.points))
               /\ calls' = Append(calls, Call("simple_upload", "upsert", out.error, up.points))
    /\ up' = IdleUpload
    /\ UNCHANGED <<fs, next_uuid, handles, handler, running, clients, pool>>
    /\ UNCHANGED chunkVars
    /\ UNCHANGED siteVars

\* main, lines 135-143: every file was handled
main_finish ==
    /\ ing.pc = "loop"
    /\ ing.files = <<>>
    /\ ing' = [ing EXCEPT !.pc = "done"]
    /\ UNCHANGED <<fs, up, uploads, next_uuid>>
    /\ UNCHANGED <<chunkVars, queryVars>>
    /\ UNCHANGED siteVars

\* the arguments add_text_chunk is called with
AddedTexts == {"ROS 2 is a robotics middleware"}

AddedVectors == {2}

AddedDocIds == {<<>>, <<"intro">>}

AddedMetadata == {[chunk_index |-> 0]}

\* RAGService.add_text_chunk(text, embedding, metadata, doc_id); ingestions
\* are issued one after another: it is not called while the script runs
add_text_chunk ==
    /\ ing.pc \in {"idle", "done"}
    /\ Len(SelectSeq(calls, LAMBDA x : x.by = "rag_service")) < MaxAdds
    /\ \E text \in AddedTexts, v \in AddedVectors, metadata \in AddedMetadata,
          doc_id \in AddedDocIds :
          LET base  == [text |-> text,
                        doc_id |-> IF doc_id # <<>> THEN doc_id[1] ELSE "unknown"]
              point == [id |-> uuid4(next_uuid), vector |-> v,
                        payload |-> [k \in DOMAIN base \cup DOMAIN metadata |->
                                        IF k \in DOMAIN metadata THEN metadata[k] ELSE base[k]]]
          IN  \E out \in upsert(index, <<point>>) :
                 /\ index' = [index EXCEPT !.points = out.points]
                 /\ calls' = Append(calls,
                        Call("rag_service", "upsert", IF out.ok THEN "ok" ELSE out.error,
                             <<point>>))
    /\ next_uuid' = next_uuid + 1
    /\ UNCHANGED <<fs, ing, up, uploads, handles, handler, running, clients, pool>>
    /\ UNCHANGED chunkVars
    /\ UNCHANGED siteVars

NextIngest ==
    \/ main_start
    \/ upload_file_begin
    \/ upload_file_embed
    \/ upload_file_upsert
    \/ main_finish
    \/ add_text_chunk

(***************************************************************************)
(* services/rag_service.py: RAGService.query.                              *)
(***************************************************************************)
\* f"[Source {i}]: {chunk['text']}"
RagContextPart(i, chunk) == Piece("source", i, <<>>, chunk.text)

\* lines 115-124: the context of RAGService.query
RagBuildContext(similar_chunks, additional_context) ==
    LET context_parts == [i \in 1..Len(similar_chunks) |-> RagContextPart(i, similar_chunks[i])]
        context       == Join(context_parts)
    IN  IF ~additional_context.none /\ additional_context.text # ""
        THEN << Piece("text", 0, <<>>, "Selected Text:\n"),
                Piece("selected", 0, <<>>, additional_context.text),
                Piece("text", 0, <<>>, "\n\n") >> \o context
        ELSE context

\* an exception leaves query: nothing in it catches
RagRaise(frame, e) ==
    [frame EXCEPT !.pc = "raised", !.errors = Append(@, [status_code |-> 0, detail |-> e])]

\* lines 96-110: query is called and, whatever the question, awaits its
\* embedding
rag_query(c) ==
    /\ c \in clients
    /\ handler[c].pc = "idle"
    /\ running = "none"
    /\ \E req \in pool :
          /\ handler' = [handler EXCEPT ![c] =
                 [@ EXCEPT !.pc = "await_embed", !.request = Some(req)]]
          /\ calls' = Append(calls, Call(c, "embed", "pending", req.question))
    /\ UNCHANGED <<handles, index, running, clients, pool>>
    /\ UNCHANGED chunkVars
    /\ UNCHANGED ingestVars
    /\ UNCHANGED siteVars

\* line 110: create_embedding returns or raises
rag_query_embedded(c) ==
    /\ handler[c].pc = "await_embed"
    /\ running = "none"
    /\ LET k == CHOOSE i \in 1..Len(calls) : calls[i].by = c /\ calls[i].op = "embed"
       IN  \E out \in embeddings_create(handler[c].request[1].question) :
              IF out.ok
              THEN /\ handler' = [handler EXCEPT ![c] =
                          [@ EXCEPT !.pc = "search", !.question_embedding = Some(out.vector)]]
                   /\ calls' = [calls EXCEPT ![k].result = "ok"]
                   /\ running' = c
              ELSE /\ handler' = [handler EXCEPT ![c] = RagRaise(@, out.error)]
                   /\ calls' = [calls EXCEPT ![k].result = out.error]
                   /\ UNCHANGED running
    /\ UNCHANGED <<handles, index, clients, pool>>
    /\ UNCHANGED chunkVars
    /\ UNCHANGED ingestVars
    /\ UNCHANGED siteVars

\* lines 113-152: search_similar, the context, and the chat completion is
\* issued and awaited
rag_query_search(c) ==
    /\ handler[c].pc = "search"
    /\ running = c
    /\ LET req == handler[c].request[1]
           v   == handler[c].question_embedding[1]
       IN  \E out \in query_points(index, v, req.max_results) :
              IF out.ok
              THEN LET similar_chunks == [i \in 1..Len(out.points) |-> SourceOf(out.points[i])]
                       context == RagBuildContext(similar_chunks, req.selected_text)
                   IN  /\ handler' = [handler EXCEPT ![c] =
                              [@ EXCEPT !.pc = "await_generate",
                                        !.search_results = out.points,
                                        !.sources = similar_chunks,
                                        !.context = context]]
                       /\ calls' = calls \o
                              << Call(c, "search", "ok", <<v, req.max_results>>),
                                 Call(c, "generate", "pending",
                                      [context |-> context, question |-> req.question]) >>
              ELSE /\ handler' = [handler EXCEPT ![c] = RagRaise(@, out.error)]
                   /\ calls' = Append(calls, Call(c, "search", out.error, <<v, req.max_results>>))
    /\ running' = "none"
    /\ UNCHANGED <<handles, index, clients, pool>>
    /\ UNCHANGED chunkVars
    /\ UNCHANGED ingestVars
    /\ UNCHANGED siteVars

\* lines 142-166: the chat completion returns or raises; the confidence
rag_query_generated(c) ==
    /\ handler[c].pc = "await_generate"
    /\ running = "none"
    /\ LET k == CHOOSE i \in 1..Len(calls) : calls[i].by = c /\ calls[i].op = "generate"
       IN  \E out \in generate_content(calls[k].arg) :
              IF out.ok
              THEN /\ handler' = [handler EXCEPT ![c] =
                          [@ EXCEPT !.pc = "done",
                                    !.response = Some([answer |-> out.text,
                                                       sources |-> handler[c].sources,
                                                       confidence |-> Confidence(handler[c].sources)])]]
                   /\ calls' = [calls EXCEPT ![k].result = "ok"]
              ELSE /\ handler' = [handler EXCEPT ![c] = RagRaise(@, out.error)]
                   /\ calls' = [calls EXCEPT ![k].result = out.error]
    /\ UNCHANGED <<handles, index, running, clients, pool>>
    /\ UNCHANGED chunkVars
    /\ UNCHANGED ingestVars
    /\ UNCHANGED siteVars

NextRag ==
    \E c \in Queries :
        rag_query(c) \/ rag_query_embedded(c) \/ rag_query_search(c) \/ rag_query_generated(c)

(***************************************************************************)
(* services/phr_service.py: PHRService.                                    *)
(*                                                                         *)
(* A text is the sequence of its pieces: <<"a.py">> is "a.py" and          *)
(* <<" - ", "a.py">> is " - a.py". A title is the sequence of its          *)
(* characters.                                                             *)
(***************************************************************************)
\* class Stage(Enum): the values
StageValues ==
    {"constitution", "spec", "plan", "tasks", "red", "green", "refactor", "explainer",
     "misc", "general"}

Digits == {"0", "1", "2", "3", "4", "5", "6", "7", "8", "9"}

\* c.isalnum()
IsAlnum(ch) ==
    \/ ch \in Digits
    \/ \E i \in 1..Len(LowerChars) : LowerChars[i] = ch \/ UpperChars[i] = ch

\* title.lower().replace(" ", "-").replace("/", "-")[:30], alnum and "-" kept
Slug(title) ==
    LET lowered  == Lower(title)
        replaced == [i \in 1..Len(lowered) |->
                        IF lowered[i] \in {" ", "/"} THEN "-" ELSE lowered[i]]
    IN  SelectSeq(PySlice(replaced, 0, 30), LAMBDA ch : IsAlnum(ch) \/ ch = "-")

\* get_phr_directory(stage, feature): the directory under history/prompts
\* ("" is history/prompts itself)
get_phr_directory(stage, feature) ==
    IF stage = "constitution" THEN "constitution"
    ELSE IF stage = "general" THEN "general"
    ELSE IF feature # "" THEN feature
    ELSE ""

\* a file name is the sequence of its characters, with the ending
\* ".prompt.md" and the stage value as one piece each
DigitChars == <<"0", "1", "2", "3", "4", "5", "6", "7", "8", "9">>

RECURSIVE DigitsOf(_)
DigitsOf(n) == IF n < 10 THEN <<DigitChars[n + 1]>> ELSE DigitsOf(n \div 10) \o <<DigitChars[(n % 10) + 1]>>

RECURSIVE ZeroPad(_, _)
ZeroPad(digits, width) == IF Len(digits) >= width THEN digits ELSE ZeroPad(<<"0">> \o digits, width)

\* f"{new_id:04d}"
Format04d(n) == ZeroPad(DigitsOf(n), 4)

\* id_part.isdigit()
IsDigit(part) == part # <<>> /\ \A i \in 1..Len(part) : part[i] \in Digits

RECURSIVE ParseInt(_)
\* int(id_part)
ParseInt(part) ==
    IF part = <<>> THEN 0
    ELSE 10 * ParseInt(SubSeq(part, 1, Len(part) - 1))
         + (CHOOSE d \in 0..9 : DigitChars[d + 1] = part[Len(part)])

\* name.split("-")[0]
BeforeFirstDash(name) ==
    LET dashes == {i \in 1..Len(name) : name[i] = "-"}
    IN  IF dashes = {} THEN name
        ELSE SubSeq(name, 1, (CHOOSE i \in dashes : \A j \in dashes : i <= j) - 1)

PhrPath(dir, name) == [dir |-> dir, name |-> name]

\* directory.glob("*.prompt.md")
Glob(files, dir) ==
    {path \in DOMAIN files :
        path.dir = dir /\ path.name # <<>> /\ path.name[Len(path.name)] = ".prompt.md"}

MaxIdByCount(existing_files) == Cardinality(existing_files)

\* lines 94-101: the greatest numeric id among the names, 0 without any
MaxId(existing_files) ==
    LET ids == {ParseInt(BeforeFirstDash(path.name)) :
                   path \in {q \in existing_files : IsDigit(BeforeFirstDash(q.name))}}
    IN  IF ids = {} THEN 0 ELSE CHOOSE m \in ids : \A x \in ids : x <= m

\* generate_phr_filename(stage, title, feature)
generate_phr_filename(files, stage, title, feature) ==
    LET directory == get_phr_directory(stage, feature)
        new_id    == MaxId(Glob(files, directory)) + 1
    IN  Format04d(new_id) \o <<"-">> \o Slug(title) \o <<".", stage, ".prompt.md">>

\* "\n".join(f" - {f}" for f in items): the lines of the text; the text of
\* no item is the empty text, which is one empty line
JoinItems(items) ==
    IF items = <<>> THEN << <<>> >> ELSE [i \in 1..Len(items) |-> <<" - ">> \o items[i]]

\* text.split("\n")[1:]: the lines after the first
SplitLines(text) == Tail(text)

\* yaml.dump of a value and yaml.safe_load of what was dumped: text, lists of
\* text and multi-line text come back as they went in
YamlDump(value) == [yaml |-> value]

YamlLoad(node) == node.yaml

\* _write_phr_to_file: the frontmatter between the two "---" lines
Frontmatter(phr) ==
    [ID |-> YamlDump(phr.id), TITLE |-> YamlDump(phr.title), STAGE |-> YamlDump(phr.stage),
     FEATURE |-> YamlDump(phr.feature), LABELS |-> YamlDump(phr.labels),
     FILES_YAML |-> YamlDump(JoinItems(phr.files_yaml)),
     TESTS_YAML |-> YamlDump(JoinItems(phr.tests_yaml)),
     PROMPT_TEXT |-> YamlDump(phr.prompt_text),
     RESPONSE_TEXT |-> YamlDump(phr.response_text)]

\* the content of a file: its frontmatter, <<>> for a file without one
FileContent(frontmatter) == [frontmatter |-> frontmatter]

\* load_phr(file_path): the record, or None (<<>>) for a file that is
\* missing or has no frontmatter
load_phr(files, file_path) ==
    IF file_path \notin DOMAIN files THEN <<>>
    ELSE IF files[file_path].frontmatter = <<>> THEN <<>>
    ELSE LET frontmatter == files[file_path].frontmatter[1]
         IN  Some([id |-> YamlLoad(frontmatter.ID),
                   title |-> YamlLoad(frontmatter.TITLE),
                   stage |-> YamlLoad(frontmatter.STAGE),
                   feature |-> YamlLoad(frontmatter.FEATURE),
                   labels |-> YamlLoad(frontmatter.LABELS),
                   files_yaml |-> SplitLines(YamlLoad(frontmatter.FILES_YAML)),
                   tests_yaml |-> SplitLines(YamlLoad(frontmatter.TESTS_YAML)),
                   prompt_text |-> YamlLoad(frontmatter.PROMPT_TEXT),
                   response_text |-> YamlLoad(frontmatter.RESPONSE_TEXT)])

\* create_phr(title, stage, ...): the path it writes and returns, and the
\* files afterwards (open(file_path, 'w') replaces a file of that name)
CreatePhr(files, args) ==
    LET filename  == generate_phr_filename(files, args.stage, args.title, args.feature)
        directory == get_phr_directory(args.stage, args.feature)
        file_path == PhrPath(directory, filename)
        phr_id    == BeforeFirstDash(filename)
        phr       == [id |-> phr_id, title |-> args.title, stage |-> args.stage,
                      feature |-> args.feature, labels |-> args.labels,
                      files_yaml |-> args.files_yaml, tests_yaml |-> args.tests_yaml,
                      prompt_text |-> args.prompt_text, response_text |-> args.response_text]
        written   == FileContent(Some(Frontmatter(phr)))
    IN  [file_path |-> file_path,
         files |-> [q \in DOMAIN files \cup {file_path} |->
                       IF q = file_path THEN written ELSE files[q]]]

\* the arguments create_phr is called with
PhrTitles == { <<"H", "i", " ", "y", "o", "u">>, <<"A", "/", "e", "!">> }

PhrFileLists == { <<>>, << <<"a.py">> >>, << <<"a.py">>, <<"b.py">> >> }

PhrCall(title, stage, files_yaml) ==
    [title |-> title, stage |-> stage, feature |-> "auth", labels |-> << <<"rag">> >>,
     files_yaml |-> files_yaml, tests_yaml |-> <<>>,
     prompt_text |-> <<"why?">>, response_text |-> <<"because", "\n", "so">>]

PhrArgs ==
    {PhrCall(title, "spec", files_yaml) : title \in PhrTitles, files_yaml \in PhrFileLists}
    \cup {[PhrCall(<<"H", "i", " ", "y", "o", "u">>, "general", <<>>)
              EXCEPT !.tests_yaml = << <<"t.py">>, <<"u.py">> >>]}

\* what history/prompts holds before the first call: nothing; an older
\* record with id 7; a file that is no record
PhrStores ==
    { [path \in {} |-> FileContent(<<>>)],
      [path \in {PhrPath("auth", <<"0", "0", "0", "7", "-", "o", "l", "e", ".", "spec", ".prompt.md">>)} |->
          FileContent(Some(Frontmatter(
              [id |-> <<"0", "0", "0", "7">>, title |-> <<"o", "l", "e">>, stage |-> "spec", feature |-> "auth",
               labels |-> <<>>, files_yaml |-> <<>>, tests_yaml |-> <<>>,
               prompt_text |-> <<"p">>, response_text |-> <<"r">>])))],
      [path \in {PhrPath("general", <<"n", "o", "t", "e", "s", ".prompt.md">>)} |->
          FileContent(<<>>)] }

NoLoad == [file_path |-> <<>>, result |-> <<>>]

InitPhr ==
    /\ phr_files \in PhrStores
    /\ phr_calls = <<>>
    /\ phr_loaded = NoLoad

\* PHRService.create_phr
create_phr ==
    /\ Len(phr_calls) < MaxPhrCalls
    /\ \E args \in PhrArgs :
          LET done == CreatePhr(phr_files, args)
          IN  /\ phr_files' = done.files
              /\ phr_calls' = Append(phr_calls,
                     [args |-> args, file_path |-> done.file_path, before |-> phr_files])
    /\ UNCHANGED phr_loaded
    /\ UNCHANGED <<served, authVars>>
    /\ UNCHANGED <<chunkVars, queryVars, ingestVars>>

\* PHRService.load_phr on a path create_phr returned
load_phr_call ==
    /\ \E k \in 1..Len(phr_calls) :
          phr_loaded' = [file_path |-> Some(phr_calls[k].file_path),
                         result |-> load_phr(phr_files, phr_calls[k].file_path)]
    /\ UNCHANGED <<phr_files, phr_calls>>
    /\ UNCHANGED <<served, authVars>>
    /\ UNCHANGED <<chunkVars, queryVars, ingestVars>>

NextPhr == create_phr \/ load_phr_call

(***************************************************************************)
(* main.py: the PHR, specs and content endpoints. Every request is made    *)
(* by an authenticated user (get_current_user has returned).               *)
(*                                                                         *)
(* A path is the sequence of its segments and a segment the sequence of    *)
(* its characters; symbolic links are not modelled.                        *)
(***************************************************************************)
\* the body of a response: the records listed, found or created, the record
\* loaded, the files of a spec, the path and the content of a file served
NoBody == [records |-> {}, phr |-> <<>>, files |-> {}, path |-> <<>>, content |-> <<>>]

\* what a handler body ends with: a returned value, or a raised exception
Returned(body) == [raised |-> "", status |-> 200, detail |-> <<>>, body |-> body]

\* raise HTTPException(status_code=status, detail=detail)
RaiseHTTP(status, detail) ==
    [raised |-> "HTTPException", status |-> status, detail |-> detail, body |-> NoBody]

\* an exception that is no HTTPException, str(e) being message
RaiseError(type, message) ==
    [raised |-> type, status |-> 0, detail |-> message, body |-> NoBody]

\* str(e) of an exception: f"{status_code}: {detail}" for an HTTPException
StrOfException(outcome) ==
    IF outcome.raised = "HTTPException"
    THEN <<ToString(outcome.status), ": ">> \o outcome.detail
    ELSE outcome.detail

\* except Exception as e: raise HTTPException(status_code=500, detail=str(e));
\* HTTPException is a subclass of Exception
ExceptException(outcome) ==
    IF outcome.raised = "" THEN outcome ELSE RaiseHTTP(500, StrOfException(outcome))

\* except HTTPException: raise, followed by the except Exception clause
ExceptHTTPExceptionFirst(outcome) ==
    IF outcome.raised = "HTTPException" THEN outcome ELSE ExceptException(outcome)

\* a requested path: the segments between its "/", absolute when it starts
\* with "/"
Relative(segments) == [absolute |-> FALSE, segments |-> segments]

Absolute(segments) == [absolute |-> TRUE, segments |-> segments]

\* what a request carries: a stage string, a path of the site, the path of a
\* record, a spec id
NoRequest ==
    [stage |-> <<>>, file_path |-> Relative(<<>>), record |-> <<>>, spec_id |-> <<>>]

\* what the client receives for a handler that ended with outcome
Response(endpoint, request, outcome) ==
    [endpoint |-> endpoint, request |-> request, status |-> outcome.status,
     detail |-> outcome.detail, body |-> outcome.body]

\* the spelling of each Stage value
StageName ==
    [s \in StageValues |->
        CASE s = "constitution" -> <<"c", "o", "n", "s", "t", "i", "t", "u", "t", "i", "o", "n">>
          [] s = "spec"         -> <<"s", "p", "e", "c">>
          [] s = "plan"         -> <<"p", "l", "a", "n">>
          [] s = "tasks"        -> <<"t", "a", "s", "k", "s">>
          [] s = "red"          -> <<"r", "e", "d">>
          [] s = "green"        -> <<"g", "r", "e", "e", "n">>
          [] s = "refactor"     -> <<"r", "e", "f", "a", "c", "t", "o", "r">>
          [] s = "explainer"    -> <<"e", "x", "p", "l", "a", "i", "n", "e", "r">>
          [] s = "misc"         -> <<"m", "i", "s", "c">>
          [] s = "general"      -> <<"g", "e", "n", "e", "r", "a", "l">>]

\* Stage(value): the member with that value, ValueError (<<>>) without one
StageOf(value) ==
    IF \E s \in StageValues : StageName[s] = value
    THEN Some(CHOOSE s \in StageValues : StageName[s] = value)
    ELSE <<>>

\* the stage strings requests carry: "Spec", "general", "bogus"
StageStrings ==
    { <<"S", "p", "e", "c">>, <<"g", "e", "n", "e", "r", "a", "l">>, <<"b", "o", "g", "u", "s">> }

\* lines 367-371, 421-425, 452-456: the stage, or HTTPException 400
ValidateStage(stage) ==
    IF StageOf(Lower(stage)) = <<>>
    THEN RaiseHTTP(400, <<"Invalid stage: ">> \o stage)
    ELSE Returned(NoBody)

\* query in text
Contains(text, query) ==
    \E i \in 0..Len(text) : PySlice(text, i, i + Len(query)) = query

\* PHRService.list_phrs: the records of the directory of the stage or the
\* feature, of every directory without either (the order, by date, is not
\* modelled)
list_phrs(files, stage, feature) ==
    LET directories ==
            IF stage = <<"constitution">> THEN {"constitution"}
            ELSE IF stage = <<"general">> THEN {"general"}
            ELSE IF feature # "" THEN {feature}
            ELSE {path.dir : path \in DOMAIN files} \ {""}
    IN  {path \in DOMAIN files :
            /\ path.dir \in directories
            /\ path \in Glob(files, path.dir)
            /\ load_phr(files, path) # <<>>}

\* PHRService.search_phrs: the listed records with the query in their
\* title, prompt, response or a label
search_phrs(files, query, stage, feature) ==
    {path \in list_phrs(files, stage, feature) :
        LET full_phr == load_phr(files, path)[1]
        IN  \/ Contains(Lower(full_phr.title), Lower(query))
            \/ Contains(Lower(full_phr.prompt_text), Lower(query))
            \/ Contains(Lower(full_phr.response_text), Lower(query))
            \/ \E i \in 1..Len(full_phr.labels) : Contains(Lower(full_phr.labels[i]), Lower(query))}

\* the site: every file below the base directory and outside it, with its
\* content
Seg ==
    [app |-> <<"a", "p", "p">>,
     docs |-> <<"d", "o", "c", "s">>,
     docs_old |-> <<"d", "o", "c", "s", "-", "o", "l", "d">>,
     src |-> <<"s", "r", "c">>,
     components |-> <<"c", "o", "m", "p", "o", "n", "e", "n", "t", "s">>,
     components_old |-> <<"c", "o", "m", "p", "o", "n", "e", "n", "t", "s", "-", "o", "l", "d">>,
     static |-> <<"s", "t", "a", "t", "i", "c">>,
     static_old |-> <<"s", "t", "a", "t", "i", "c", "-", "o", "l", "d">>,
     specs |-> <<"s", "p", "e", "c", "s">>,
     rag |-> <<"r", "a", "g">>,
     env |-> <<".", "e", "n", "v">>,
     etc |-> <<"e", "t", "c">>,
     passwd |-> <<"p", "a", "s", "s", "w", "d">>,
     a_md |-> <<"a", ".", "m", "d">>,
     x_md |-> <<"x", ".", "m", "d">>,
     c_tsx |-> <<"C", ".", "t", "s", "x">>,
     l_svg |-> <<"l", ".", "s", "v", "g">>,
     r_txt |-> <<"r", ".", "t", "x", "t">>,
     spec_md |-> <<"s", "p", "e", "c", ".", "m", "d">>,
     up |-> <<".", ".">>]

\* Path(__file__).parent.parent
BaseDir == <<Seg.app>>

SiteFiles ==
    ( <<Seg.app, Seg.docs, Seg.a_md>> :> "intro" )
    @@ ( <<Seg.app, Seg.docs_old, Seg.a_md>> :> "old notes" )
    @@ ( <<Seg.app, Seg.src, Seg.components, Seg.c_tsx>> :> "chat" )
    @@ ( <<Seg.app, Seg.src, Seg.components_old, Seg.c_tsx>> :> "old chat" )
    @@ ( <<Seg.app, Seg.static, Seg.l_svg>> :> "logo" )
    @@ ( <<Seg.app, Seg.static, Seg.r_txt>> :> "robots" )
    @@ ( <<Seg.app, Seg.static_old, Seg.r_txt>> :> "old robots" )
    @@ ( <<Seg.app, Seg.specs, Seg.rag, Seg.spec_md>> :> "rag spec" )
    @@ ( <<Seg.app, Seg.env>> :> "secret" )
    @@ ( <<Seg.etc, Seg.passwd>> :> "accounts" )

\* root / file_path: an absolute file_path replaces root
PathJoin(root, file_path) ==
    IF file_path.absolute THEN file_path.segments ELSE root \o file_path.segments

RECURSIVE ResolveFrom(_, _)
ResolveFrom(done, segments) ==
    IF segments = <<>> THEN done
    ELSE IF Head(segments) \in {<<>>, <<".">>} THEN ResolveFrom(done, Tail(segments))
    ELSE IF Head(segments) = Seg.up
         THEN ResolveFrom(PySlice(done, 0, Max(Len(done) - 1, 0)), Tail(segments))
    ELSE ResolveFrom(Append(done, Head(segments)), Tail(segments))

\* Path.resolve()
resolve(path) == ResolveFrom(<<>>, path)

\* str(path)
StrOfPath(path) ==
    IF path = <<>> THEN <<"/">> ELSE Flatten([i \in 1..Len(path) |-> <<"/">> \o path[i]])

\* s.startswith(prefix)
StartsWith(s, prefix) == PySlice(s, 0, Len(prefix)) = prefix

\* s.endswith(suffix)
EndsWith(s, suffix) == Len(suffix) <= Len(s) /\ PySlice(s, Len(s) - Len(suffix), Len(s)) = suffix

IsFile(path) == path \in DOMAIN SiteFiles

IsDir(path) ==
    \E file \in DOMAIN SiteFiles : Len(path) < Len(file) /\ PySlice(file, 0, Len(path)) = path

\* Path.exists()
Exists(path) == IsFile(path) \/ IsDir(path)

\* the path is root itself or below it
Inside(path, root) == PySlice(path, 0, Len(root)) = root

\* lines 586-589, 640-643, 672-675: the check that the resolved path is
\* under the root
UnderRoot(path, root) == StartsWith(StrOfPath(path), StrOfPath(resolve(root)))

image_extensions ==
    { <<".", "p", "n", "g">>, <<".", "j", "p", "g">>, <<".", "j", "p", "e", "g">>,
      <<".", "g", "i", "f">>, <<".", "s", "v", "g">>, <<".", "w", "e", "b", "p">> }

\* the text of file_path, for endswith
StrOfRequest(file_path) ==
    LET joined == Flatten([i \in 1..Len(file_path.segments) |-> <<"/">> \o file_path.segments[i]])
    IN  IF file_path.absolute THEN joined ELSE PySlice(joined, 1, Len(joined))

\* with open(path) as f: f.read()
ReadFile(path) ==
    IF IsFile(path) THEN Returned([NoBody EXCEPT !.content = <<SiteFiles[path]>>])
    ELSE RaiseError("IsADirectoryError", <<"Is a directory">>)

\* the body of get_doc_content, get_component_content and get_static_file
\* up to the read: 403 outside the root, 404 for a missing file
ServeFile(root, file_path, missing, encoded) ==
    LET path == resolve(PathJoin(root, file_path))
    IN  IF ~UnderRoot(path, root) THEN RaiseHTTP(403, <<"Access denied">>)
        ELSE IF ~Exists(path) THEN RaiseHTTP(404, <<missing>>)
        ELSE IF ReadFile(path).raised # "" THEN ReadFile(path)
        ELSE Returned([NoBody EXCEPT
                          !.path = path,
                          !.content = IF encoded THEN <<"base64">> \o ReadFile(path).body.content
                                      ELSE ReadFile(path).body.content])

DocsRoot == BaseDir \o <<Seg.docs>>

ComponentsRoot == BaseDir \o <<Seg.src, Seg.components>>

StaticRoot == BaseDir \o <<Seg.static>>

\* the paths requested from the three content endpoints
DocRequests ==
    { Relative(<<Seg.a_md>>), Relative(<<Seg.x_md>>), Relative(<<Seg.up, Seg.env>>),
      Relative(<<Seg.up, Seg.docs_old, Seg.a_md>>), Relative(<<Seg.up, Seg.docs_old>>),
      Absolute(<<Seg.etc, Seg.passwd>>) }

ComponentRequests ==
    { Relative(<<Seg.c_tsx>>), Relative(<<Seg.up, Seg.up, Seg.env>>),
      Relative(<<Seg.up, Seg.components_old, Seg.c_tsx>>) }

StaticRequests ==
    { Relative(<<Seg.l_svg>>), Relative(<<Seg.r_txt>>), Relative(<<Seg.up, Seg.docs, Seg.a_md>>),
      Relative(<<Seg.up, Seg.static_old, Seg.r_txt>>) }

\* the requests to the PHR and specs endpoints
NoStage == <<>>

HttpCreateRequests == {[PhrCall(title, "", <<>>) EXCEPT !.stage = stage] :
                          title \in {<<"H", "i", " ", "y", "o", "u">>}, stage \in StageStrings}

HttpListRequests == [stage : StageStrings \cup {NoStage}, feature : {"", "auth"}]

HttpSearchRequests == [query : {<<"h", "i">>}, stage : StageStrings \cup {NoStage}, feature : {""}]

MissingRecord == PhrPath("auth", <<"0", "0", "0", "0", "-", "n", "o", ".", "spec", ".prompt.md">>)

SpecIds == {Seg.rag, <<"n", "o">>}

NoResponse == Response("", NoRequest, Returned(NoBody))

InitHttp ==
    /\ served = [count |-> 0, last |-> NoResponse]
    /\ phr_files \in PhrStores
    /\ phr_calls = <<>>
    /\ phr_loaded = NoLoad

\* the request is answered: the response is the last one served
Serve(response) ==
    served' = [count |-> served.count + 1, last |-> response]

\* POST /phr/create
post_phr_create ==
    /\ served.count < MaxRequests
    /\ \E request \in HttpCreateRequests :
          LET stage == StageOf(Lower(request.stage))
              done  == CreatePhr(phr_files, [request EXCEPT !.stage = stage[1]])
              asked == [NoRequest EXCEPT !.stage = request.stage]
          IN  IF ValidateStage(request.stage).raised # ""
              THEN /\ Serve(Response("/phr/create", asked,
                              ExceptException(ValidateStage(request.stage))))
                   /\ UNCHANGED phr_files
              ELSE /\ Serve(Response("/phr/create", asked,
                              ExceptException(
                                  Returned([NoBody EXCEPT !.records = {done.file_path}]))))
                   /\ phr_files' = done.files
    /\ UNCHANGED <<phr_calls, phr_loaded>>
    /\ UNCHANGED authVars
    /\ UNCHANGED <<chunkVars, queryVars, ingestVars>>

\* lines 420-425, 451-456: the stage is validated only when one is given
StageFilter(stage) ==
    IF stage = NoStage THEN Returned(NoBody) ELSE ValidateStage(stage)

\* GET /phr/list
get_phr_list ==
    /\ served.count < MaxRequests
    /\ \E request \in HttpListRequests :
          Serve(Response("/phr/list", [NoRequest EXCEPT !.stage = request.stage],
              ExceptException(
                  IF StageFilter(request.stage).raised # "" THEN StageFilter(request.stage)
                  ELSE Returned([NoBody EXCEPT !.records =
                           list_phrs(phr_files, StageOf(Lower(request.stage)),
                                     request.feature)]))))
    /\ UNCHANGED phrVars
    /\ UNCHANGED authVars
    /\ UNCHANGED <<chunkVars, queryVars, ingestVars>>

\* POST /phr/search
post_phr_search ==
    /\ served.count < MaxRequests
    /\ \E request \in HttpSearchRequests :
          Serve(Response("/phr/search", [NoRequest EXCEPT !.stage = request.stage],
              ExceptException(
                  IF StageFilter(request.stage).raised # "" THEN StageFilter(request.stage)
                  ELSE Returned([NoBody EXCEPT !.records =
                           search_phrs(phr_files, request.query,
                                       StageOf(Lower(request.stage)), request.feature)]))))
    /\ UNCHANGED phrVars
    /\ UNCHANGED authVars
    /\ UNCHANGED <<chunkVars, queryVars, ingestVars>>

\* GET /phr/{file_path}
get_phr ==
    /\ served.count < MaxRequests
    /\ \E file_path \in DOMAIN phr_files \cup {MissingRecord} :
          Serve(Response("/phr/{file_path}", [NoRequest EXCEPT !.record = <<file_path>>],
              ExceptException(
                  IF load_phr(phr_files, file_path) = <<>>
                  THEN RaiseHTTP(404, <<"PHR not found">>)
                  ELSE Returned([NoBody EXCEPT !.phr = load_phr(phr_files, file_path)]))))
    /\ UNCHANGED phrVars
    /\ UNCHANGED authVars
    /\ UNCHANGED <<chunkVars, queryVars, ingestVars>>

\* GET /specs/{spec_id}
get_spec ==
    /\ served.count < MaxRequests
    /\ \E spec_id \in SpecIds :
          LET spec_dir == BaseDir \o <<Seg.specs, spec_id>>
          IN  Serve(Response("/specs/{spec_id}", [NoRequest EXCEPT !.spec_id = spec_id],
                  ExceptException(
                      IF ~Exists(resolve(spec_dir)) THEN RaiseHTTP(404, <<"Spec not found">>)
                      ELSE Returned([NoBody EXCEPT !.files =
                               {file \in DOMAIN SiteFiles :
                                   Len(file) = Len(spec_dir) + 1 /\ Inside(file, spec_dir)}]))))
    /\ UNCHANGED phrVars
    /\ UNCHANGED authVars
    /\ UNCHANGED <<chunkVars, queryVars, ingestVars>>

\* GET /content/docs/{file_path}
get_doc_content ==
    /\ served.count < MaxRequests
    /\ \E file_path \in DocRequests :
          Serve(Response("/content/docs", [NoRequest EXCEPT !.file_path = file_path],
              ExceptHTTPExceptionFirst(
                  ServeFile(DocsRoot, file_path, "Documentation file not found", FALSE))))
    /\ UNCHANGED phrVars
    /\ UNCHANGED authVars
    /\ UNCHANGED <<chunkVars, queryVars, ingestVars>>

\* GET /content/components/{component_path}
get_component_content ==
    /\ served.count < MaxRequests
    /\ \E component_path \in ComponentRequests :
          Serve(Response("/content/components", [NoRequest EXCEPT !.file_path = component_path],
              ExceptHTTPExceptionFirst(
                  ServeFile(ComponentsRoot, component_path, "Component file not found", FALSE))))
    /\ UNCHANGED phrVars
    /\ UNCHANGED authVars
    /\ UNCHANGED <<chunkVars, queryVars, ingestVars>>

\* GET /content/static/{file_path}
get_static_file ==
    /\ served.count < MaxRequests
    /\ \E file_path \in StaticRequests :
          Serve(Response("/content/static", [NoRequest EXCEPT !.file_path = file_path],
              ExceptHTTPExceptionFirst(
                  ServeFile(StaticRoot, file_path, "Static file not found",
                      \E ext \in image_extensions :
                          EndsWith(Lower(StrOfRequest(file_path)), ext)))))
    /\ UNCHANGED phrVars
    /\ UNCHANGED authVars
    /\ UNCHANGED <<chunkVars, queryVars, ingestVars>>

NextHttp ==
    \/ post_phr_create
    \/ get_phr_list
    \/ post_phr_search
    \/ get_phr
    \/ get_spec
    \/ get_doc_content
    \/ get_component_content
    \/ get_static_file

(***************************************************************************)
(* auth_server.py: the development auth server. users and sessions are the *)
(* module's two dictionaries; the createdAt and updatedAt fields of their  *)
(* entries are not modelled. An email is the sequence of its characters.   *)
(***************************************************************************)
\* the emails and passwords of the requests
Emails == { <<"a", "@", "e">>, <<"A", "@", "e">>, <<"e", "@", "e">> }

Passwords == {"pw1", "pw2"}

\* hashlib.sha256(password.encode()).hexdigest(): no two passwords of the
\* model have the same digest
hash_password(password) == <<"sha256", password>>

\* secrets.token_urlsafe(n): the k-th value drawn; no two draws are equal
token_urlsafe(k) == k

EmailKeyAsGiven(email) == email

\* user_data.email.lower(), login_data.email.lower()
EmailKey(email) == Lower(email)

\* email.split("@")[0]
LocalPart(email) ==
    LET ats == {i \in 1..Len(email) : email[i] = "@"}
    IN  IF ats = {} THEN email
        ELSE SubSeq(email, 1, (CHOOSE i \in ats : \A j \in ats : i <= j) - 1)

\* the "user" object of a response
UserView(user) == [id |-> user.id, email |-> user.email, name |-> user.name,
                   emailVerified |-> user.emailVerified]

\* JSONResponse(content=...) of sign_up and sign_in is given the datetime
\* values createdAt and updatedAt; the response is built (200) or building
\* it raises (500), after users and sessions were written
JSONResponseStatuses == {200, 500}

\* the last call and its answer; sign_outs counts the sign_out calls
AuthAnswer(op, email, password, token, status, user, sign_outs) ==
    [op |-> op, email |-> email, password |-> password, token |-> token,
     status |-> status, user |-> user, sign_outs |-> sign_outs]

InitAuth ==
    /\ users = [email \in {} |-> <<>>]
    /\ sessions = [token \in {} |-> <<>>]
    /\ auth_last = AuthAnswer("", <<>>, "", <<>>, 200, <<>>, 0)
    /\ next_token = 1

\* sessions[token] = {"userId": ..., "email": ...}
AddSession(stored, token, user) ==
    [t \in DOMAIN stored \cup {token} |->
        IF t = token THEN [userId |-> user.id, email |-> user.email] ELSE stored[t]]

\* POST /sign-up/email
sign_up ==
    /\ Cardinality(DOMAIN sessions) < MaxSessions
    /\ \E email_given \in Emails, password \in Passwords, status \in JSONResponseStatuses :
          LET email == EmailKey(email_given)
              user  == [id |-> token_urlsafe(next_token), email |-> email,
                        name |-> LocalPart(email), password |-> hash_password(password),
                        emailVerified |-> TRUE]
              token == token_urlsafe(next_token + 1)
          IN  IF email \in DOMAIN users
              THEN /\ auth_last' = AuthAnswer("sign_up", email_given, password, <<>>, 400, <<>>,
                                              auth_last.sign_outs)
                   /\ UNCHANGED <<users, sessions, next_token>>
              ELSE /\ users' = [e \in DOMAIN users \cup {email} |->
                                   IF e = email THEN user ELSE users[e]]
                   /\ sessions' = AddSession(sessions, token, user)
                   /\ next_token' = next_token + 2
                   /\ auth_last' =
                          IF status = 200
                          THEN AuthAnswer("sign_up", email_given, password, <<token>>, 200,
                                          <<UserView(user)>>, auth_last.sign_outs)
                          ELSE AuthAnswer("sign_up", email_given, password, <<>>, 500, <<>>,
                                          auth_last.sign_outs)
    /\ UNCHANGED <<phrVars, served>>
    /\ UNCHANGED <<chunkVars, queryVars, ingestVars>>

\* POST /sign-in/email
sign_in ==
    /\ Cardinality(DOMAIN sessions) < MaxSessions
    /\ \E email_given \in Emails, password \in Passwords, status \in JSONResponseStatuses :
          LET email == EmailKey(email_given)
              token == token_urlsafe(next_token)
          IN  IF email \notin DOMAIN users
                 \/ users[email].password # hash_password(password)
              THEN /\ auth_last' = AuthAnswer("sign_in", email_given, password, <<>>, 401, <<>>,
                                              auth_last.sign_outs)
                   /\ UNCHANGED <<users, sessions, next_token>>
              ELSE /\ sessions' = AddSession(sessions, token, users[email])
                   /\ next_token' = next_token + 1
                   /\ auth_last' =
                          IF status = 200
                          THEN AuthAnswer("sign_in", email_given, password, <<token>>, 200,
                                          <<UserView(users[email])>>, auth_last.sign_outs)
                          ELSE AuthAnswer("sign_in", email_given, password, <<>>, 500, <<>>,
                                          auth_last.sign_outs)
                   /\ UNCHANGED users
    /\ UNCHANGED <<phrVars, served>>
    /\ UNCHANGED <<chunkVars, queryVars, ingestVars>>

sign_out_clears ==
    /\ auth_last.sign_outs < MaxSignOuts
    /\ auth_last' = AuthAnswer("sign_out", <<>>, "", <<>>, 200, <<>>, auth_last.sign_outs + 1)
    /\ sessions' = [token \in {} |-> <<>>]
    /\ UNCHANGED <<users, next_token>>
    /\ UNCHANGED <<phrVars, served>>
    /\ UNCHANGED <<chunkVars, queryVars, ingestVars>>

\* POST /sign-out: the response deletes the cookie of the client
sign_out ==
    /\ auth_last.sign_outs < MaxSignOuts
    /\ auth_last' = AuthAnswer("sign_out", <<>>, "", <<>>, 200, <<>>, auth_last.sign_outs + 1)
    /\ UNCHANGED <<users, sessions, next_token>>
    /\ UNCHANGED <<phrVars, served>>
    /\ UNCHANGED <<chunkVars, queryVars, ingestVars>>

\* the session_token values of get_session: none, a token that was never
\* issued (0), any token issued so far
SessionTokens == {<<>>, <<0>>} \cup {<<token_urlsafe(k)>> : k \in 1..(next_token - 1)}

\* GET /get-session
get_session ==
    /\ \E session_token \in SessionTokens :
          IF session_token = <<>> \/ session_token[1] \notin DOMAIN sessions
          THEN auth_last' = AuthAnswer("get_session", <<>>, "", session_token, 200, <<>>,
                                       auth_last.sign_outs)
          ELSE LET email == sessions[session_token[1]].email
               IN  IF email \notin DOMAIN users
                   THEN auth_last' = AuthAnswer("get_session", <<>>, "", session_token, 500,
                                                <<>>, auth_last.sign_outs)
                   ELSE auth_last' = AuthAnswer("get_session", <<>>, "", session_token, 200,
                                                <<UserView(users[email])>>,
                                                auth_last.sign_outs)
    /\ UNCHANGED <<users, sessions, next_token>>
    /\ UNCHANGED <<phrVars, served>>
    /\ UNCHANGED <<chunkVars, queryVars, ingestVars>>

NextAuth == sign_up \/ sign_in \/ sign_out \/ get_session

(***************************************************************************)
(* Specifications.                                                         *)
(***************************************************************************)
\* EmbeddingService.__init__ with the defaults of CHUNK_SIZE and CHUNK_OVERLAP
DefaultChunkSize == 1000

DefaultChunkOverlap == 200

\* no text is being chunked
ChunkerIdle ==
    /\ chunk_size = DefaultChunkSize
    /\ chunk_overlap = DefaultChunkOverlap
    /\ tokens = <<>>
    /\ start = 0
    /\ chunk_tokens = <<>>
    /\ chunks = <<>>
    /\ cpc = "ready"

\* no request is submitted
NoQueries ==
    /\ handles = [qdrant_client |-> "client", openai_client |-> "client", gemini_model |-> "model"]
    /\ index = [status |-> "ok", points |-> <<>>]
    /\ handler = [c \in Queries |-> IdleFrame]
    /\ running = "none"
    /\ calls = <<>>
    /\ clients = {}
    /\ pool = {}

\* no ingestion is running
IngestIdle ==
    /\ fs = [p \in {} |-> 0]
    /\ ing = [pc |-> "idle", files |-> <<>>, total |-> 0, run |-> 0]
    /\ up = IdleUpload
    /\ uploads = <<>>
    /\ next_uuid = 1

\* nothing is stored under history/prompts and no record is loaded
PhrIdle ==
    /\ phr_files = [path \in {} |-> FileContent(<<>>)]
    /\ phr_calls = <<>>
    /\ phr_loaded = NoLoad

\* no request to the other endpoints of main.py is answered
HttpIdle == served = [count |-> 0, last |-> NoResponse]

\* the auth server has just started
AuthIdle == InitAuth

SiteIdle == PhrIdle /\ HttpIdle /\ AuthIdle

\* the /query endpoint serving one request
Init == InitQuery /\ ChunkerIdle /\ IngestIdle /\ SiteIdle

Next == NextQuery

Spec == Init /\ [][Next]_vars

\* EmbeddingService.chunk_text on one text
InitChunker == InitChunk /\ NoQueries /\ IngestIdle /\ SiteIdle

SpecChunk == InitChunker /\ [][NextChunk]_vars

\* the same, with the loop of a call that was entered running on: chunk_text
\* is synchronous code that nothing suspends
SpecChunkFair ==
    InitChunker /\ [][NextChunk]_vars /\ WF_vars(chunk_loop) /\ WF_vars(chunk_return)

\* the request bodies of two clients that query at the same time
ConcurrentRequests ==
    { [question |-> <<"h", "i">>, max_results |-> 1,
       selected_text |-> [none |-> TRUE, text |-> ""]],
      [question |-> <<"w", "h", "a", "t", " ", "i", "s", " ", "r", "o", "s">>,
       max_results |-> 1, selected_text |-> [none |-> TRUE, text |-> ""]],
      [question |-> <<"w", "h", "a", "t", " ", "i", "s", " ", "r", "o", "s">>,
       max_results |-> 2, selected_text |-> [none |-> FALSE, text |-> "X"]] }

\* the collections they query
ConcurrentIndexStates ==
    { [status |-> "unavailable", points |-> <<>>],
      [status |-> "ok", points |-> <<>>],
      [status |-> "ok",
       points |-> Corpus(<< [vector |-> 0,
                             payload |-> [text |-> "ROS 2 is a robotics middleware",
                                          doc_id |-> "intro", file |-> "intro.mdx",
                                          chunk_index |-> 0]],
                            [vector |-> 1,
                             payload |-> [text |-> "Gazebo simulates robots",
                                          module |-> "module-2", file |-> "gazebo.mdx"]] >>)] }

\* the /query endpoint serving two requests on one event loop
InitConcurrent ==
    /\ handles \in StartupOutcomes
    /\ index \in ConcurrentIndexStates
    /\ handler = [c \in Queries |-> IdleFrame]
    /\ running = "none"
    /\ calls = <<>>
    /\ clients = Queries
    /\ pool = ConcurrentRequests
    /\ ChunkerIdle
    /\ IngestIdle
    /\ SiteIdle

SpecConcurrent == InitConcurrent /\ [][NextQuery]_vars

\* RAGService.query called for two questions
SpecRag == InitConcurrent /\ [][NextRag]_vars

\* ingestion runs of simple_upload.py into an empty collection
InitUpload == InitIngest /\ NoQueries /\ ChunkerIdle /\ SiteIdle

SpecIngest == InitUpload /\ [][NextIngest]_vars

\* PHRService: records are created one after another and loaded
InitRecords ==
    InitPhr /\ HttpIdle /\ AuthIdle /\ NoQueries /\ ChunkerIdle /\ IngestIdle

SpecPhr == InitRecords /\ [][NextPhr]_vars

\* the PHR, specs and content endpoints answering requests
InitEndpoints == InitHttp /\ AuthIdle /\ NoQueries /\ ChunkerIdle /\ IngestIdle

SpecHttp == InitEndpoints /\ [][NextHttp]_vars

\* the auth server answering calls
InitAuthServer == InitAuth /\ PhrIdle /\ HttpIdle /\ NoQueries /\ ChunkerIdle /\ IngestIdle

SpecAuth == InitAuthServer /\ [][NextAuth]_vars

(***************************************************************************)
(* Claims about query_chatbot (checked under Spec).                        *)
(***************************************************************************)
CallsBy(c) == SelectSeq(calls, LAMBDA x : x.by = c)

OpsBy(c) == [i \in 1..Len(CallsBy(c)) |-> CallsBy(c)[i].op]

Raised(call) == call.result \notin {"pending", "ok"}

Received(c) == handler[c].request # <<>>

QuestionOf(c) == handler[c].request[1].question

Searched(c) == \E i \in 1..Len(calls) : calls[i].by = c /\ calls[i].op = "search"

SearchCallOf(c) ==
    calls[CHOOSE i \in 1..Len(calls) : calls[i].by = c /\ calls[i].op = "search"]

Abs(x) == IF x < 0 THEN -x ELSE x

\* the greetings the claim names
ClaimFillers ==
    { <<"h", "i">>, <<"h", "e", "l", "l", "o">>, <<"h", "e", "y">>, <<"o", "k">>,
      <<"t", "h", "a", "n", "k", "s">> }

\* C1: a request whose question, lower-cased and trimmed, is one of hi, hello,
\* hey, ok, thanks is answered with the canned greeting, sources [] and
\* confidence 1.0, and no embedding, search or generation call is made for it.
C1_FillerShortCircuits ==
    \A c \in Queries :
        (Received(c) /\ Strip(Lower(QuestionOf(c))) \in ClaimFillers) =>
            /\ handler[c].pc = "done"
            /\ handler[c].response
                  = <<[answer |-> CannedAnswer, sources |-> <<>>, confidence |-> 100]>>
            /\ handler[c].errors = <<>>
            /\ CallsBy(c) = <<>>

C1_Witness ==
    \E c \in Queries :
        /\ Received(c)
        /\ QuestionOf(c) = <<" ", "T", "H", "A", "N", "K", "S", "\n">>
        /\ handler[c].pc = "done"
        /\ CallsBy(c) = <<>>

\* C2: a query one of whose provider calls raised has ended in failure: the
\* call that raised is its last call (no retry, no later step), exactly one
\* HTTP error was raised, with status 500 and the cause as detail, and there
\* is no response body (no answer, sources or confidence); a query reports an
\* error only when it failed, and no provider call is made twice.
C2_FailureIsSingle500 ==
    \A c \in Queries :
        LET cs == CallsBy(c)
            f  == handler[c]
        IN  /\ (\E i \in 1..Len(cs) : Raised(cs[i])) =>
                  /\ f.pc = "failed"
                  /\ \A i \in 1..Len(cs) : Raised(cs[i]) <=> i = Len(cs)
                  /\ f.errors = <<[status_code |-> 500, detail |-> cs[Len(cs)].result]>>
            /\ f.pc = "failed" =>
                  /\ Len(f.errors) = 1
                  /\ f.errors[1].status_code = 500
                  /\ f.response = <<>>
            /\ f.pc # "failed" => f.errors = <<>>
            /\ \A i, j \in 1..Len(cs) : cs[i].op = cs[j].op => i = j

C2_Witness ==
    \E c \in Queries :
        /\ handler[c].pc = "failed"
        /\ OpsBy(c) = <<"embed", "search", "generate">>
        /\ handler[c].search_results # <<>>
        /\ handler[c].errors = <<[status_code |-> 500, detail |-> "generation failed"]>>
        /\ handler[c].response = <<>>

\* C3 as stated: a search against a collection that does not exist or an
\* index that is unavailable yields no passages instead of failing the query,
\* which then completes with sources [] and confidence 0.0.
C3_MissingIndexIsEmpty ==
    \A c \in Queries :
        (index.status # "ok" /\ Searched(c)) =>
            /\ ~Raised(SearchCallOf(c))
            /\ handler[c].search_results = <<>>
            /\ handler[c].pc = "done" =>
                  /\ handler[c].response[1].sources = <<>>
                  /\ handler[c].response[1].confidence = 0

\* C4: against a collection that exists and holds no points the search of a
\* query returns zero hits without raising; the query goes on to the
\* generation step, calls generation at most once and with a context that
\* holds no retrieved source, fails only if generation does, and its response
\* has sources [] and confidence 0.0.
C4_EmptyIndexDegrades ==
    \A c \in Queries :
        LET cs == CallsBy(c)
            f  == handler[c]
        IN  (index = [status |-> "ok", points |-> <<>>] /\ Searched(c)) =>
                /\ SearchCallOf(c).result = "ok"
                /\ f.search_results = <<>>
                /\ f.pc \in {"generate", "done", "failed"}
                /\ \A i \in 1..Len(cs) :
                      cs[i].op = "generate" =>
                          \A k \in 1..Len(cs[i].arg.context) :
                              cs[i].arg.context[k].kind # "source"
                /\ f.pc = "failed" =>
                      \/ handles.gemini_model = "None"
                      \/ (cs[Len(cs)].op = "generate" /\ Raised(cs[Len(cs)]))
                /\ f.pc = "done" =>
                      /\ OpsBy(c) = <<"embed", "search", "generate">>
                      /\ f.response[1].sources = <<>>
                      /\ f.response[1].confidence = 0

C4_Witness ==
    \E c \in Queries :
        /\ index = [status |-> "ok", points |-> <<>>]
        /\ handler[c].pc = "done"
        /\ OpsBy(c) = <<"embed", "search", "generate">>
        /\ handler[c].request[1].selected_text.text = "X"
        /\ handler[c].response[1].sources = <<>>
        /\ handler[c].response[1].confidence = 0

\* C5: the confidence of the response of a query that searched is the mean of
\* the scores of the retrieved passages rounded to 2 decimals (it differs from
\* the mean by at most half a hundredth), and 0.0 when none was retrieved.
C5_ConfidenceIsRoundedMean ==
    \A c \in Queries :
        (handler[c].pc = "done" /\ Searched(c)) =>
            LET hits == handler[c].search_results
                n    == Len(hits)
                conf == handler[c].response[1].confidence
            IN  /\ Len(handler[c].response[1].sources) = n
                /\ IF n = 0
                   THEN conf = 0
                   ELSE 2 * Abs(10 * n * conf - SumScores(hits)) <= 10 * n

C5_Witness ==
    \E c \in Queries :
        /\ handler[c].pc = "done"
        /\ Len(handler[c].search_results) >= 2
        /\ SumScores(handler[c].search_results) % (10 * Len(handler[c].search_results)) # 0
        /\ handler[c].response[1].confidence # 0

\* C6 as stated: the confidence of every response is inside [0, 1].
C6_ConfidenceInUnitInterval ==
    \A c \in Queries :
        handler[c].pc = "done" =>
            /\ 0 <= handler[c].response[1].confidence
            /\ handler[c].response[1].confidence <= 100

SearchOk(c) == Searched(c) /\ SearchCallOf(c).result = "ok"

SelectedPresent(c) ==
    /\ ~handler[c].request[1].selected_text.none
    /\ handler[c].request[1].selected_text.text # ""

\* C11: the context built from the passages P1..Pn holds one block per
\* passage, labelled Source 1 .. Source n in input order and carrying that
\* passage's text, with one blank-line separator between consecutive blocks;
\* with a non-empty selected text the context begins with the labelled block
\* of that text and every passage block follows it, and without one the
\* context holds the passage blocks and their separators only.
C11_ContextBlocksInOrder ==
    \A c \in Queries :
        SearchOk(c) =>
            LET ctx  == handler[c].context
                hits == handler[c].search_results
                n    == Len(hits)
                off  == IF SelectedPresent(c) THEN 3 ELSE 0
            IN  /\ Len(ctx) = off + (IF n = 0 THEN 0 ELSE 2 * n - 1)
                /\ \A i \in 1..n :
                      /\ ctx[off + 2 * i - 1].kind = "source"
                      /\ ctx[off + 2 * i - 1].ord = i
                      /\ ctx[off + 2 * i - 1].text = PayloadGet(hits[i].payload, "text", "")
                /\ \A i \in 1..(n - 1) : ctx[off + 2 * i] = Piece("text", 0, <<>>, "\n\n")
                /\ SelectedPresent(c) =>
                      /\ ctx[1] = Piece("text", 0, <<>>, "Selected Text by User:\n")
                      /\ ctx[2] = Piece("selected", 0, <<>>,
                                        handler[c].request[1].selected_text.text)
                      /\ ctx[3].kind = "text"
                /\ \A k \in 1..Len(ctx) :
                      /\ ctx[k].kind = "selected" => (SelectedPresent(c) /\ k = 2)
                      /\ ctx[k].kind = "source" => k > off

C11_Witness ==
    \E c \in Queries :
        /\ SearchOk(c)
        /\ SelectedPresent(c)
        /\ Len(handler[c].search_results) = 2
        /\ handler[c].context[2].text = "X"
        /\ handler[c].context[4].ord = 1
        /\ handler[c].context[5] = Separator
        /\ handler[c].context[6].ord = 2

GenerateCallOf(c) ==
    calls[CHOOSE i \in 1..Len(calls) : calls[i].by = c /\ calls[i].op = "generate"]

\* C13: in the response of a successful query that searched, the sources are
\* the passages rendered into the context of the prompt, as many and in the
\* same order (the i-th source is the block labelled Source i), and the
\* confidence is the rounded mean of the scores of exactly those sources.
C13_SourcesAreRenderedPassages ==
    \A c \in Queries :
        (handler[c].pc = "done" /\ Searched(c)) =>
            LET ctx    == GenerateCallOf(c).arg.context
                blocks == SelectSeq(ctx, LAMBDA x : x.kind = "source")
                srcs   == handler[c].response[1].sources
                n      == Len(srcs)
                conf   == handler[c].response[1].confidence
            IN  /\ Len(blocks) = n
                /\ \A i \in 1..n :
                      /\ blocks[i].ord = i
                      /\ blocks[i].text = srcs[i].text
                /\ IF n = 0
                   THEN conf = 0
                   ELSE 2 * Abs(10 * n * conf - SumScores(srcs)) <= 10 * n

C13_Witness ==
    \E c \in Queries :
        /\ handler[c].pc = "done"
        /\ Searched(c)
        /\ Len(handler[c].response[1].sources) = 2
        /\ handler[c].response[1].sources[1].text # handler[c].response[1].sources[2].text
        /\ Len(SelectSeq(GenerateCallOf(c).arg.context, LAMBDA x : x.kind = "source")) = 2

\* C14: the provider calls of one query are a prefix of embedding, search,
\* generation, each at most once; a call is issued only when every earlier
\* call of the query has returned; the search is made with the vector the
\* embedding call returned and with the request's max_results as its limit;
\* a query that is done without being a greeting made all three.
C14_CallsInOrder ==
    \A c \in Queries :
        LET cs == CallsBy(c)
        IN  /\ Len(cs) <= 3
            /\ \A i \in 1..Len(cs) : cs[i].op = <<"embed", "search", "generate">>[i]
            /\ \A i \in 1..(Len(cs) - 1) : cs[i].result = "ok"
            /\ Searched(c) =>
                  /\ handler[c].question_embedding # <<>>
                  /\ SearchCallOf(c).arg
                        = <<handler[c].question_embedding[1], handler[c].request[1].max_results>>
            /\ (handler[c].pc = "done" /\ ~IsVague(QuestionOf(c))) => Len(cs) = 3
            /\ handler[c].pc = "await_embed" => (Len(cs) = 1 /\ cs[1].result = "pending")

C14_Witness ==
    \E c \in Queries :
        /\ handler[c].pc = "done"
        /\ OpsBy(c) = <<"embed", "search", "generate">>
        /\ handler[c].request[1].max_results = 2
        /\ SearchCallOf(c).arg = <<2, 2>>
        /\ \A i \in 1..Len(CallsBy(c)) : CallsBy(c)[i].result = "ok"

(***************************************************************************)
(* Claims about EmbeddingService.chunk_text (checked under SpecChunk).     *)
(***************************************************************************)
ValidWindow == 0 <= chunk_overlap /\ chunk_overlap < chunk_size

FirstN(s, k) == SubSeq(s, 1, Min(k, Len(s)))

LastN(s, k) == SubSeq(s, Len(s) - Min(k, Len(s)) + 1, Len(s))

DropFirst(s, k) == SubSeq(s, Min(k, Len(s)) + 1, Len(s))

\* the windows with the duplicated head of every window but the first removed
Rebuilt(ws, k) ==
    Flatten([i \in 1..Len(ws) |-> IF i = 1 THEN ws[i] ELSE DropFirst(ws[i], k)])

\* C7: with 0 <= chunk_overlap < chunk_size every emitted window has at most
\* chunk_size tokens, every chunk is the decoded text of its window, and once
\* chunk_text has returned the windows, each but the first without its first
\* chunk_overlap tokens, concatenate to exactly the input token sequence.
C7_Reconstructs ==
    ValidWindow =>
        /\ \A i \in 1..Len(chunk_tokens) :
              /\ Len(chunk_tokens[i]) <= chunk_size
              /\ chunks[i] = Decode(chunk_tokens[i])
        /\ Len(chunks) = Len(chunk_tokens)
        /\ cpc = "returned" => Rebuilt(chunk_tokens, chunk_overlap) = tokens

C7_Witness ==
    /\ cpc = "returned"
    /\ ValidWindow
    /\ chunk_overlap >= 2
    /\ Len(chunk_tokens) >= 3
    /\ Len(chunk_tokens[Len(chunk_tokens)]) < chunk_overlap
    /\ Rebuilt(chunk_tokens, chunk_overlap) = tokens

\* C8 as stated: an input with fewer tokens than chunk_size yields exactly
\* one chunk.
C8_ShortInputOneChunk ==
    (cpc = "returned" /\ ValidWindow /\ Len(tokens) < chunk_size)
        => Len(chunks) = 1

\* C8 amended: with 0 <= chunk_overlap < chunk_size, chunk_text yields exactly
\* one chunk if and only if the input is not empty and has at most
\* chunk_size - chunk_overlap tokens; that chunk is the whole input.
C8_OneChunkIffWithinStride ==
    (cpc = "returned" /\ ValidWindow) =>
        /\ Len(chunks) = 1
              <=> (1 <= Len(tokens) /\ Len(tokens) <= chunk_size - chunk_overlap)
        /\ Len(chunks) = 1 => chunk_tokens[1] = tokens

C8_Witness ==
    /\ cpc = "returned"
    /\ ValidWindow
    /\ chunk_overlap >= 1
    /\ Len(tokens) = chunk_size - chunk_overlap
    /\ Len(tokens) >= 2
    /\ Len(chunks) = 1

\* C9 as stated: for every pair of consecutive chunks the last chunk_overlap
\* tokens of the first equal the first chunk_overlap tokens of the second.
C9_OverlapEqual ==
    ValidWindow =>
        \A i \in 1..(Len(chunk_tokens) - 1) :
            LastN(chunk_tokens[i], chunk_overlap)
                = FirstN(chunk_tokens[i + 1], chunk_overlap)

\* C9 amended: for consecutive chunks i, i+1 of which chunk i+1 has at least
\* chunk_overlap tokens, the last chunk_overlap tokens of chunk i equal the
\* first chunk_overlap tokens of chunk i+1; a chunk i+1 with fewer tokens than
\* chunk_overlap is wholly the tail of chunk i.
C9_OverlapEqualWhenLongEnough ==
    ValidWindow =>
        \A i \in 1..(Len(chunk_tokens) - 1) :
            LET a == chunk_tokens[i]
                b == chunk_tokens[i + 1]
            IN  IF Len(b) >= chunk_overlap
                THEN /\ Len(a) = chunk_size
                     /\ LastN(a, chunk_overlap) = FirstN(b, chunk_overlap)
                ELSE /\ Len(b) < Len(a)
                     /\ LastN(a, Len(b)) = b

C9_Witness ==
    /\ cpc = "returned"
    /\ ValidWindow
    /\ chunk_overlap >= 2
    /\ Len(chunk_tokens) >= 3
    /\ Len(chunk_tokens[2]) >= chunk_overlap
    /\ LastN(chunk_tokens[1], chunk_overlap) = FirstN(chunk_tokens[2], chunk_overlap)
    /\ Len(chunk_tokens[Len(chunk_tokens)]) < chunk_overlap

\* C10 as stated: with chunk_overlap >= chunk_size the parameters are
\* rejected, so the windowing loop never runs and no chunk is produced.
C10_DegenerateRejected ==
    chunk_overlap >= chunk_size => (chunk_tokens = <<>> /\ chunks = <<>>)

(***************************************************************************)
(* Claims on SpecIngest.                                                   *)
(***************************************************************************)
\* the finished upload_file calls of run r
RunRecords(r) == SelectSeq(uploads, LAMBDA u : u.run = r)

FilesOf(records) == [k \in 1..Len(records) |-> records[k].file]

CountsOf(records) == [k \in 1..Len(records) |-> records[k].count]

\* C15: a failure while reading, embedding or upserting one document is
\* caught and counts 0 for that document; the run goes on: the documents
\* handled so far and those still to come are the sorted corpus, a finished
\* run has handled every document, and the run's total is the sum of the
\* per-document counts.
C15_FailureDoesNotStopRun ==
    /\ ing.pc \in {"idle", "loop", "done"}
    /\ \A k \in 1..Len(uploads) : uploads[k].failed # "" => uploads[k].count = 0
    /\ ing.run > 0 =>
          LET records == RunRecords(ing.run)
          IN  /\ FilesOf(records) \o ing.files = SortedFiles(fs)
              /\ ing.total = SumSeq(CountsOf(records))
              /\ ing.pc = "done" => FilesOf(records) = SortedFiles(fs)

C15_Witness ==
    /\ ing.pc = "done"
    /\ LET records == RunRecords(ing.run)
       IN  \E j, k \in 1..Len(records) :
              /\ j < k
              /\ records[j].failed \in {"embed", "upsert"}
              /\ records[k].failed = ""
              /\ records[k].count = 1
              /\ ing.total = 1

\* the calls upload_file has made to the embedding provider and to the index
UploadCalls == SelectSeq(calls, LAMBDA x : x.by = "simple_upload")

\* the points upload_file has written: those whose payload names a file
UploadedPoints == SelectSeq(index.points, LAMBDA p : "file" \in DOMAIN p.payload)

\* C16 as stated: no chunk shorter than the floor of 50 characters is sent to
\* the embedding provider or upserted into the index.
C16_NoChunkBelowFloor ==
    /\ \A k \in 1..Len(UploadCalls) :
          UploadCalls[k].op = "embed" => TextLen(UploadCalls[k].arg) >= MinLength
    /\ \A k \in 1..Len(UploadedPoints) :
          TextLen(UploadedPoints[k].payload.text) >= MinLength

\* C17: a call of upload_file on a document whose cleaned text is shorter
\* than the floor, empty text included, returns 0 without raising, makes no
\* embedding call and no upsert, and leaves the index as it was.
C17_ShortDocumentIsSkipped ==
    \A k \in 1..Len(uploads) :
        LET u == uploads[k]
        IN  (u.failed # "read" /\ TextLen(u.cleaned) < MinLength) =>
                /\ u.count = 0
                /\ u.failed = ""
                /\ u.calls_to = u.calls_from
                /\ u.index_after = u.index_before

C17_Witness ==
    /\ \E k \in 1..Len(uploads) :
          /\ uploads[k].failed = ""
          /\ uploads[k].cleaned = <<>>
          /\ uploads[k].index_before # <<>>
    /\ \E k \in 1..Len(uploads) :
          /\ uploads[k].failed = ""
          /\ uploads[k].cleaned = <<20, 20>>
          /\ uploads[k].index_before # <<>>
          /\ uploads[k].calls_from > 0

\* the ids of the points of a collection
IdsOf(points) == {points[k].id : k \in 1..Len(points)}

\* C18: every ingestion step only adds points: each point already in the
\* index keeps its id, vector and payload, and each point written has an id
\* that no point of the index had.
C18_IngestionOnlyAdds ==
    [][/\ Len(index'.points) >= Len(index.points)
       /\ \A k \in 1..Len(index.points) : index'.points[k] = index.points[k]
       /\ \A k \in (Len(index.points) + 1)..Len(index'.points) :
             index'.points[k].id \notin IdsOf(index.points)
       /\ Cardinality(IdsOf(index'.points)) = Len(index'.points)]_vars

C18_Witness ==
    /\ \E j, k \in 1..Len(uploads) :
          /\ uploads[j].run = 1
          /\ uploads[k].run = 2
          /\ uploads[j].file = uploads[k].file
          /\ uploads[j].count = 2
          /\ uploads[k].count = 2
    /\ \E k \in 1..Len(index.points) : "file" \notin DOMAIN index.points[k].payload
    /\ Cardinality(IdsOf(index.points)) >= 5

\* C19 as stated: no two points of the index share the same
\* (doc_id, chunk_index) pair.
C19_ChunkIndexUniqueInDocument ==
    \A j, k \in 1..Len(UploadedPoints) :
        (/\ j # k
         /\ UploadedPoints[j].payload.doc_id = UploadedPoints[k].payload.doc_id)
            => UploadedPoints[j].payload.chunk_index # UploadedPoints[k].payload.chunk_index

\* the calls a finished upload_file call has made
CallsOf(u) == SubSeq(calls, u.calls_from + 1, u.calls_to)

\* the points of after that are not in before
AddedBy(u) == SelectSeq(u.index_after, LAMBDA p : p.id \notin IdsOf(u.index_before))

\* C20: the count a call of upload_file returns is the number of points it
\* added to the index. The call made one upsert at most, as its last call
\* and after one successful embedding per chunk; it returned the number of
\* chunks with one point per chunk written, or 0 with the index as it was.
C20_CountIsPointsWritten ==
    \A k \in 1..Len(uploads) :
        LET u  == uploads[k]
            cs == CallsOf(u)
        IN  /\ u.count = Len(AddedBy(u))
            /\ Len(u.index_after) = Len(u.index_before) + u.count
            /\ \A n \in 1..Len(cs) :
                  cs[n].op = "upsert" =>
                      /\ n = Len(cs)
                      /\ n = Len(u.chunks) + 1
                      /\ \A e \in 1..(n - 1) : cs[e].op = "embed" /\ cs[e].result = "ok"
            /\ \/ /\ u.failed = ""
                  /\ u.count = Len(u.chunks)
                  /\ \A n \in 1..Len(u.chunks) :
                        \E p \in 1..Len(AddedBy(u)) :
                            /\ AddedBy(u)[p].payload.text = u.chunks[n]
                            /\ AddedBy(u)[p].payload.chunk_index = n - 1
               \/ /\ u.failed # ""
                  /\ u.count = 0
                  /\ u.index_after = u.index_before

C20_Witness ==
    \E j, k \in 1..Len(uploads) :
        /\ uploads[j].failed = "embed"
        /\ Len(uploads[j].chunks) = 2
        /\ uploads[j].calls_to = uploads[j].calls_from + 2
        /\ uploads[j].count = 0
        /\ uploads[j].index_before # <<>>
        /\ uploads[k].failed = ""
        /\ uploads[k].count = 2
        /\ uploads[k].file = uploads[j].file

(***************************************************************************)
(* Claims about concurrent queries (checked under SpecConcurrent).         *)
(***************************************************************************)
\* the query is between the issue of its first provider call and its answer
InPipeline(c) == handler[c].pc \in {"await_embed", "search", "generate"}

\* C21 as stated: while a query waits for its embedding, search or
\* generation call, another submitted query that has not started can start.
C21_WaitingSuspendsOnlyCaller ==
    \A c, d \in clients :
        (c # d /\ InPipeline(c) /\ handler[d].pc = "idle") => ENABLED Receive(d)

\* what query c gets when it runs alone against the index: the hits of its
\* own embedding and max_results, and the confidence of those
AnswersAlone(c) ==
    { [sources |-> [i \in 1..Len(out.points) |-> SourceOf(out.points[i])],
       confidence |-> Confidence([i \in 1..Len(out.points) |-> SourceOf(out.points[i])])] :
          out \in { o \in query_points(index, handler[c].question_embedding[1],
                                       handler[c].request[1].max_results) : o.ok } }

\* C22: no step of a query changes the index or a global handle, and in every
\* interleaving an answered query has the sources and the confidence it gets
\* alone against the same index (none and 1.0 for a filler).
C22_QueriesShareNoState ==
    /\ [][index' = index /\ handles' = handles]_vars
    /\ [](\A c \in clients :
             handler[c].pc = "done" =>
                 LET resp == handler[c].response[1]
                 IN  IF IsVague(handler[c].request[1].question)
                     THEN resp.sources = <<>> /\ resp.confidence = 100
                     ELSE [sources |-> resp.sources, confidence |-> resp.confidence]
                              \in AnswersAlone(c))

C22_Witness ==
    /\ handler["q1"].pc = "done"
    /\ handler["q2"].pc = "done"
    /\ Len(handler["q1"].response[1].sources) = 1
    /\ Len(handler["q2"].response[1].sources) = 2
    /\ handler["q1"].question_embedding # handler["q2"].question_embedding
    /\ \E i, j \in 1..Len(calls) :
          /\ i < j
          /\ calls[i].by = "q1" /\ calls[i].op = "embed"
          /\ calls[j].by = "q2" /\ calls[j].op = "embed"
          /\ \A k \in 1..Len(calls) : (calls[k].by = "q1" /\ calls[k].op = "search") => j < k

(***************************************************************************)
(* Claims about RAGService.query (checked under SpecRag).                  *)
(***************************************************************************)
\* C23 as stated: for a filler question RAGService.query returns the canned
\* answer with no sources and confidence 1.0 and makes no embedding, search
\* or generation call.
C23_RagQueryClassifiesFirst ==
    \A c \in clients :
        (Received(c) /\ IsVague(QuestionOf(c))) =>
            /\ handler[c].pc = "done"
            /\ handler[c].response = Some([answer |-> CannedAnswer, sources |-> <<>>,
                                            confidence |-> 100])
            /\ CallsBy(c) = <<>>

(***************************************************************************)
(* Claims about chunk_text (checked under SpecChunkFair).                  *)
(***************************************************************************)
\* the least integer not below n / d, for d > 0
Ceil(n, d) == (n + d - 1) \div d

\* chunk_size - chunk_overlap
Stride == chunk_size - chunk_overlap

\* C24: with 0 <= chunk_overlap < chunk_size, a call of chunk_text on n
\* tokens ends, the i-th window (0-based) is the chunk_size tokens from
\* token i * (chunk_size - chunk_overlap), start grows on every iteration of
\* the loop, and the call returns ceil(n / (chunk_size - chunk_overlap))
\* chunks, none for an empty text.
C24_CeilChunksAndTermination ==
    /\ [](ValidWindow =>
             /\ \A i \in 1..Len(chunk_tokens) :
                   chunk_tokens[i] =
                       PySlice(tokens, (i - 1) * Stride, (i - 1) * Stride + chunk_size)
             /\ Len(chunks) = Len(chunk_tokens)
             /\ cpc = "loop" => start = Len(chunk_tokens) * Stride
             /\ cpc = "returned" => Len(chunks) = Ceil(Len(tokens), Stride))
    /\ [][(ValidWindow /\ Len(chunk_tokens') = Len(chunk_tokens) + 1) => start' > start]_vars
    /\ ((ValidWindow /\ cpc = "loop") ~> (cpc = "returned"))

C24_Witness ==
    /\ cpc = "returned"
    /\ chunk_size = 3
    /\ chunk_overlap = 1
    /\ Len(tokens) = 5
    /\ Len(chunks) = 3
    /\ Len(chunk_tokens[3]) = 1

\* the id a create_phr call assigned, and the numeric ids of the records
\* that were in its directory before it
AssignedId(call) == ParseInt(BeforeFirstDash(call.file_path.name))

IdsBefore(call) ==
    {ParseInt(BeforeFirstDash(path.name)) :
        path \in {q \in Glob(call.before, call.file_path.dir) : IsDigit(BeforeFirstDash(q.name))}}

\* C29: create_phr calls made one after another into one directory each
\* assign the greatest numeric id of the directory plus one (1 when it holds
\* none): the id is above every id that was there and is 1 or the successor
\* of one of them; ids of calls into the same directory are strictly
\* increasing in call order, and no call writes over a file that existed:
\* every earlier file is still there with its content.
C29_IdsIncreaseNoOverwrite ==
    /\ \A k \in 1..Len(phr_calls) :
          LET call == phr_calls[k]
          IN  /\ IsDigit(BeforeFirstDash(call.file_path.name))
              /\ \A id \in IdsBefore(call) : AssignedId(call) > id
              /\ IF IdsBefore(call) = {} THEN AssignedId(call) = 1
                 ELSE AssignedId(call) - 1 \in IdsBefore(call)
              /\ call.file_path \notin DOMAIN call.before
              /\ \A q \in DOMAIN call.before :
                    q \in DOMAIN phr_files /\ phr_files[q] = call.before[q]
    /\ \A j, k \in 1..Len(phr_calls) :
          (j < k /\ phr_calls[j].file_path.dir = phr_calls[k].file_path.dir)
              => AssignedId(phr_calls[j]) < AssignedId(phr_calls[k])

\* three records written after record 0007 of the same directory: 8, 9, 10
C29_Witness ==
    /\ Len(phr_calls) = 3
    /\ \A k \in 1..3 : phr_calls[k].file_path.dir = "auth"
    /\ IdsBefore(phr_calls[1]) = {7}
    /\ AssignedId(phr_calls[1]) = 8
    /\ AssignedId(phr_calls[3]) = 10
    /\ BeforeFirstDash(phr_calls[3].file_path.name) = <<"0", "0", "1", "0">>
    /\ Cardinality(DOMAIN phr_files) = 4

\* the call that wrote the record which was loaded
WriterOf(file_path) == {k \in 1..Len(phr_calls) : phr_calls[k].file_path = file_path}

\* C30: load_phr on the path create_phr returned yields the id, title,
\* stage, prompt_text, response_text, labels, files_yaml and tests_yaml that
\* create_phr was given, lists of any length element for element.
C30_RoundTrip ==
    phr_loaded.file_path # <<>> =>
        \A k \in WriterOf(phr_loaded.file_path[1]) :
            LET args == phr_calls[k].args
            IN  /\ phr_loaded.result # <<>>
                /\ phr_loaded.result[1].id = BeforeFirstDash(phr_calls[k].file_path.name)
                /\ phr_loaded.result[1].title = args.title
                /\ phr_loaded.result[1].stage = args.stage
                /\ phr_loaded.result[1].prompt_text = args.prompt_text
                /\ phr_loaded.result[1].response_text = args.response_text
                /\ phr_loaded.result[1].labels = args.labels
                /\ phr_loaded.result[1].files_yaml = args.files_yaml
                /\ phr_loaded.result[1].tests_yaml = args.tests_yaml

\* the stage string of the answered request is no Stage value
InvalidStageAnswered ==
    /\ served.last.endpoint \in {"/phr/create", "/phr/list", "/phr/search"}
    /\ served.last.request.stage # NoStage
    /\ \A s \in StageValues : StageName[s] # Lower(served.last.request.stage)

\* the record or the spec of the answered request does not exist
MissingAnswered ==
    \/ /\ served.last.endpoint = "/phr/{file_path}"
       /\ served.last.request.record[1] \notin DOMAIN phr_files
    \/ /\ served.last.endpoint = "/specs/{spec_id}"
       /\ \A file \in DOMAIN SiteFiles :
             ~Inside(file, BaseDir \o <<Seg.specs, served.last.request.spec_id>>)

\* C25: the client receives the status the handler chose: /phr/create,
\* /phr/list and /phr/search answer a stage string that is no Stage value
\* with 400, /phr/{file_path} and /specs/{spec_id} answer a missing record
\* with 404, never with 500.
C25_HandlerStatusReachesClient ==
    /\ InvalidStageAnswered => served.last.status = 400
    /\ MissingAnswered => served.last.status = 404

\* the root directory of the content endpoint that answered
RootOf(endpoint) ==
    CASE endpoint = "/content/docs" -> DocsRoot
      [] endpoint = "/content/components" -> ComponentsRoot
      [] endpoint = "/content/static" -> StaticRoot

\* C26: get_doc_content, get_component_content and get_static_file answer
\* every request whose resolved location is outside their root directory
\* with 403, a sibling directory whose name starts with the root's name
\* included, and never return the content of such a file.
C26_NoContentOutsideRoot ==
    served.last.endpoint \in {"/content/docs", "/content/components", "/content/static"} =>
        LET root == RootOf(served.last.endpoint)
            path == resolve(PathJoin(root, served.last.request.file_path))
        IN  ~Inside(path, root) => served.last.status = 403

\* an email is registered when a user has its lower-cased form
Registered(email) == \E e \in DOMAIN users : Lower(e) = Lower(email)

\* the call answered by the step is a sign_up or a sign_in that is rejected:
\* the email is registered already, or is unknown, or the password is wrong
RejectedCall ==
    \/ auth_last'.op = "sign_up" /\ Registered(auth_last'.email)
    \/ /\ auth_last'.op = "sign_in"
       /\ \/ ~Registered(auth_last'.email)
          \/ \E e \in DOMAIN users :
                /\ Lower(e) = Lower(auth_last'.email)
                /\ users[e].password # hash_password(auth_last'.password)

\* C27: after any calls of sign_up, sign_in, sign_out and get_session there
\* is at most one user per lower-cased email; every session refers to an
\* email that has a user, and get_session on a stored token answers with
\* that user; a sign_up for a registered email (in any case) is answered 400
\* and a sign_in with an unknown email or a wrong password 401, both leaving
\* users and sessions as they were.
C27_UsersAndSessionsConsistent ==
    /\ [](/\ \A e1, e2 \in DOMAIN users : Lower(e1) = Lower(e2) => e1 = e2
          /\ \A t \in DOMAIN sessions : sessions[t].email \in DOMAIN users
          /\ (auth_last.op = "get_session" /\ auth_last.token # <<>>
                  /\ auth_last.token[1] \in DOMAIN sessions)
                => /\ auth_last.status = 200
                   /\ auth_last.user # <<>>
                   /\ auth_last.user[1].email = sessions[auth_last.token[1]].email)
    /\ [][RejectedCall =>
            /\ auth_last'.status = IF auth_last'.op = "sign_up" THEN 400 ELSE 401
            /\ users' = users
            /\ sessions' = sessions]_vars

\* a sign_up of A@e is rejected because a@e is registered, and a session of
\* a@e is stored
C27_Witness ==
    /\ auth_last.op = "sign_up"
    /\ auth_last.email = <<"A", "@", "e">>
    /\ auth_last.status = 400
    /\ DOMAIN users = { <<"a", "@", "e">> }
    /\ \E t \in DOMAIN sessions : sessions[t].email = <<"a", "@", "e">>

\* C28: sign_out leaves sessions (and users) unchanged; no step removes or
\* changes a stored session; after sign_out calls get_session still
\* resolves every stored token to its user.
C28_SignOutKeepsSessions ==
    /\ [][auth_last'.op = "sign_out" => (sessions' = sessions /\ users' = users)]_vars
    /\ [][\A t \in DOMAIN sessions : t \in DOMAIN sessions' /\ sessions'[t] = sessions[t]]_vars
    /\ []((auth_last.sign_outs > 0 /\ auth_last.op = "get_session" /\ auth_last.token # <<>>
              /\ auth_last.token[1] \in DOMAIN sessions)
            => /\ auth_last.status = 200
               /\ auth_last.user # <<>>
               /\ auth_last.user[1].id = sessions[auth_last.token[1]].userId)

\* after a sign_out, get_session with the token issued by sign_up answers
\* with the user who signed up
C28_Witness ==
    /\ auth_last.sign_outs = 1
    /\ auth_last.op = "get_session"
    /\ auth_last.token = <<2>>
    /\ auth_last.status = 200
    /\ auth_last.user # <<>>
    /\ auth_last.user[1].id = 1
    /\ sessions[2].userId = 1

====
